---- MODULE Spec2Model ----
(***************************************************************************)
(* Model of sleap/gui/commands.py: the command layer of the SLEAP labeling *)
(* GUI.  A command is executed in a CommandContext; it gathers input       *)
(* (ask), mutates the project model (do_action), broadcasts its update     *)
(* topics and records an entry in the change stack (do_with_signal).       *)
(*                                                                         *)
(* The context is modelled as a record ctx with the fields                 *)
(*   labels          the project model (Labels)                            *)
(*   state           the GuiState key/value store                          *)
(*   change_stack    CommandContext._change_stack                          *)
(*   update_callback "callable" or None                                    *)
(*   pending         the callback handed to the player, if any             *)
(*   log             the calls a handler made, in order (observation only) *)
(* and every method of the source is an operator from ctx to ctx.          *)
(***************************************************************************)
EXTENDS Integers, Sequences, FiniteSets, TLC

VARIABLES labels, state, change_stack, update_callback, pending, log, last, nsteps

vars == <<labels, state, change_stack, update_callback, pending, log, last, nsteps>>

(***************************************************************************)
(* Bounds of the model.                                                    *)
(***************************************************************************)
\* commands executed in one behaviour
MaxSteps == 1
\* Video.frames of the videos of the main specification
NumFrames == 3

(***************************************************************************)
(* Values.                                                                 *)
(***************************************************************************)
\* Python's None, for keys holding a name
None == "None"
\* Python's None, for keys holding an instance (instance ids are positive)
NoInst == 0

Ev(e, name, topics, n) == [ev |-> e, name |-> name, topics |-> topics, n |-> n]

Range(s) == {s[i] : i \in DOMAIN s}

RECURSIVE SeqSum(_)
SeqSum(s) == IF s = <<>> THEN 0 ELSE Head(s) + SeqSum(Tail(s))

Put(p, k, v) == [f \in DOMAIN p \cup {k} |-> IF f = k THEN v ELSE p[f]]

Get(p, k, default) == IF k \in DOMAIN p THEN p[k] ELSE default

Min(S) == CHOOSE x \in S : \A y \in S : x <= y

Max(S) == CHOOSE x \in S : \A y \in S : x >= y

\* Python's range(a, b) as a set
PyRange(a, b) == a .. (b - 1)

(***************************************************************************)
(* The project model (sleap.io.dataset.Labels) and the GuiState wiring of  *)
(* the main window live outside commands.py; the operators of this section *)
(* model the calls commands.py makes on them.                              *)
(*                                                                         *)
(* labels.labeled_frames is the list of LabeledFrame objects, each         *)
(* [video, frame_idx, instances]; an instance is                           *)
(* [id, pred, score, track, from_predicted]: pred says that its type is    *)
(* PredictedInstance, track is a track id or None, from_predicted the id   *)
(* of the prediction it was made from or NoInst.                           *)
(***************************************************************************)
LFS(L) == L.labeled_frames

\* indices (into labeled_frames) of the labeled frames of a video, in order
find(L, video) ==
    SelectSeq([i \in 1 .. Len(LFS(L)) |-> i], LAMBDA i : LFS(L)[i].video = video)

\* labels.find(video, frame_idx): indices of the frames at one frame index
find_idx(L, video, frame_idx) ==
    SelectSeq(find(L, video), LAMBDA i : LFS(L)[i].frame_idx = frame_idx)

\* labels.find(video, frame_idx=range(a, b))
find_range(L, video, a, b) ==
    SelectSeq(find(L, video), LAMBDA i : LFS(L)[i].frame_idx \in PyRange(a, b))

\* the instance list of labels.find(video, frame_idx, return_new=True)[0]
instances_at(L, video, frame_idx) ==
    LET fs == find_idx(L, video, frame_idx)
    IN  IF fs = <<>> THEN <<>> ELSE LFS(L)[fs[1]].instances

AllInstances(L) ==
    UNION {Range(LFS(L)[i].instances) : i \in 1 .. Len(LFS(L))}

InstanceIds(L) == {inst.id : inst \in AllInstances(L)}

InstById(L, id) == CHOOSE inst \in AllInstances(L) : inst.id = id

\* index of the labeled frame holding the instance
FrameOfInst(L, id) ==
    CHOOSE i \in 1 .. Len(LFS(L)) : \E inst \in Range(LFS(L)[i].instances) : inst.id = id

\* LabeledFrame.predicted_instances
predicted_instances(lf) == SelectSeq(lf.instances, LAMBDA inst : inst.pred)

\* LabeledFrame.instances_to_show: predictions that an instance of the frame
\* was made from are hidden
instances_to_show(lf) ==
    SelectSeq(lf.instances,
              LAMBDA inst : ~ \E other \in Range(lf.instances) :
                                  other.from_predicted = inst.id)

\* labels.remove_instance(lf, inst, in_transaction)
remove_instance(ctx, i, id, in_transaction) ==
    [ctx EXCEPT
        !.labels.labeled_frames[i].instances =
            SelectSeq(@, LAMBDA inst : inst.id # id),
        !.log = Append(@, Ev("remove_instance", IF in_transaction THEN "in_transaction" ELSE "", <<>>, id))]

\* labels.update_cache()
update_cache(ctx) == [ctx EXCEPT !.log = Append(@, Ev("update_cache", "", <<>>, 0))]

\* set the track of every instance whose id is in ids
SetTracks(L, ids, track) ==
    [L EXCEPT !.labeled_frames =
        [i \in 1 .. Len(@) |->
            [@[i] EXCEPT !.instances =
                [k \in 1 .. Len(@) |->
                    IF @[k].id \in ids THEN [@[k] EXCEPT !.track = track] ELSE @[k]]]]]

\* labels.find_track_occupancy(video, track, frame_range): ids of the instances
\* of the video that are in the track inside [frame_range[1], frame_range[2])
find_track_occupancy(L, video, track, frame_range) ==
    IF track = None THEN {}
    ELSE {inst.id : inst \in UNION {Range(LFS(L)[i].instances) :
              i \in {j \in Range(find(L, video)) :
                       LFS(L)[j].frame_idx \in PyRange(frame_range[1], frame_range[2])}}
          } \cap {inst.id : inst \in {x \in AllInstances(L) : x.track = track}}

\* labels.track_swap(video, new_track, old_track, frame_range)
track_swap(L, video, new_track, old_track, frame_range) ==
    LET old_track_instances == find_track_occupancy(L, video, old_track, frame_range)
        new_track_instances == find_track_occupancy(L, video, new_track, frame_range)
        L1 == SetTracks(L, old_track_instances, new_track)
    IN  IF old_track # None THEN SetTracks(L1, new_track_instances, old_track) ELSE L1

\* labels.track_set_instance(frame, instance, new_track)
track_set_instance(L, i, id, new_track) ==
    LET lf == LFS(L)[i]
        L1 == track_swap(L, lf.video, new_track, InstById(L, id).track,
                         <<lf.frame_idx, lf.frame_idx + 1>>)
    IN  SetTracks(L1, {id}, new_track)

\* the tracks of the instances of a sequence, in order of first appearance
RECURSIVE TracksIn(_, _)
TracksIn(insts, seen) ==
    IF insts = <<>> THEN seen
    ELSE LET t == Head(insts).track
         IN  TracksIn(Tail(insts),
                      IF t = None \/ t \in Range(seen) THEN seen ELSE Append(seen, t))

RECURSIVE TracksOfFrames(_, _, _)
TracksOfFrames(L, fs, seen) ==
    IF fs = <<>> THEN seen
    ELSE TracksOfFrames(L, Tail(fs), TracksIn(LFS(L)[Head(fs)].instances, seen))

\* labels.get_track_occupancy(video): the dict items, <<track, start>>, in the
\* order the tracks were met; start is the first frame index the track
\* occupies (RangeList.start)
get_track_occupancy(L, video) ==
    LET insts(i) == Range(LFS(L)[i].instances)
        tracks == TracksOfFrames(L, find(L, video), <<>>)
        start(t) == Min({LFS(L)[i].frame_idx :
                            i \in {j \in Range(find(L, video)) :
                                     \E inst \in insts(j) : inst.track = t}})
    IN  [k \in 1 .. Len(tracks) |-> <<start(tracks[k]), tracks[k]>>]

\* Python's sorted(pairs, key=itemgetter(0)): a stable sort on the first item
RECURSIVE sorted(_)
sorted(s) ==
    IF s = <<>> THEN <<>>
    ELSE LET t == sorted(SubSeq(s, 1, Len(s) - 1))
             x == s[Len(s)]
             n == Cardinality({i \in 1 .. Len(t) : t[i][1] <= x[1]})
         IN  SubSeq(t, 1, n) \o <<x>> \o SubSeq(t, n + 1, Len(t))

(***************************************************************************)
(* GuiState (outside commands.py): state["labeled_frame"] is the labeled   *)
(* frame at (state["video"], state["frame_idx"]).                          *)
(***************************************************************************)
\* state["labeled_frame"].instances
labeled_frame_instances(ctx) ==
    instances_at(ctx.labels, ctx.state.video, ctx.state.frame_idx)

\* index in labels.labeled_frames of state["labeled_frame"], 0 when the frame
\* shown is a new, empty LabeledFrame
labeled_frame(ctx) ==
    LET fs == find_idx(ctx.labels, ctx.state.video, ctx.state.frame_idx)
    IN  IF fs = <<>> THEN 0 ELSE fs[1]

\* an exception leaves the handler: no statement after the raise is run, and
\* no caller in commands.py catches it
raises(ctx, exception) == [ctx EXCEPT !.log = Append(@, Ev("raise", exception, <<>>, 0))]

raised(ctx) == ctx.log # <<>> /\ ctx.log[Len(ctx.log)].ev = "raise"

\* a call that leaves commands.py and changes nothing that is modelled
external(ctx, what) == [ctx EXCEPT !.log = Append(@, Ev("external", what, <<>>, 0))]

(***************************************************************************)
(* CommandContext                                                          *)
(***************************************************************************)
\* signal_update that forgets to call the callback
signal_update_silent(ctx, what) ==
    [ctx EXCEPT !.log = Append(@, Ev("signal_update", "", what, 0))]

\* CommandContext.signal_update: the callback is called if it is callable
signal_update(ctx, what) ==
    IF ctx.update_callback = "callable"
    THEN [ctx EXCEPT !.log = @ \o <<Ev("signal_update", "", what, 0),
                                    Ev("update_callback", "", what, 0)>>]
    ELSE [ctx EXCEPT !.log = Append(@, Ev("signal_update", "", what, 0))]

\* changestack_push that keeps only the newest change
changestack_push_replacing(ctx, change) ==
    [ctx EXCEPT
        !.change_stack = <<change>>,
        !.state.has_changes = TRUE,
        !.log = Append(@, Ev("changestack_push", change, <<>>, 0))]

changestack_push(ctx, change) ==
    [ctx EXCEPT
        !.change_stack = Append(@, change),
        !.state.has_changes = TRUE,
        !.log = Append(@, Ev("changestack_push", change, <<>>, 0))]

\* changestack_savepoint that leaves out the "SAVE" mark
changestack_savepoint_unmarked(ctx) ==
    [changestack_push(ctx, "") EXCEPT !.state.has_changes = FALSE]

changestack_savepoint(ctx) ==
    [changestack_push(ctx, "SAVE") EXCEPT !.state.has_changes = FALSE]

\* changestack_clear that empties the stack and leaves has_changes as it is
changestack_clear_stack_only(ctx) ==
    [ctx EXCEPT !.change_stack = <<>>]

changestack_clear(ctx) ==
    [ctx EXCEPT !.change_stack = <<>>, !.state.has_changes = FALSE]

(***************************************************************************)
(* What ask returns: its return value ("True", "False" or "None"), the     *)
(* params it filled in and the dialogs it showed.                          *)
(***************************************************************************)
Ask(ret, params, shown) == [ret |-> ret, params |-> params, shown |-> shown]

Dialog(kind, n) == Ev("dialog", kind, <<>>, n)

\* ask left by an exception after the dialogs shown: nothing is returned
AskRaises(exception, params, shown) ==
    Ask("raised", params, shown \o <<Ev("raise", exception, <<>>, 0)>>)

\* a file dialog: an empty filename means that the user closed it
ask_filename(params, ans, kind, key) ==
    IF ans.filename = ""
    THEN Ask("False", params, <<Dialog(kind, 0)>>)
    ELSE Ask("True", Put(params, key, ans.filename), <<Dialog(kind, 0)>>)

\* AppCommand.ask
ask_default(ctx, params, ans) == Ask("True", params, <<>>)

(***************************************************************************)
(* File commands                                                           *)
(***************************************************************************)
do_NewProject(ctx, params, ans) == external(ctx, "new_window")

ask_OpenProject(ctx, params, ans) == ask_filename(params, ans, "FileDialog.open", "filename")

\* the module constant OPEN_IN_NEW
OPEN_IN_NEW == TRUE

\* OpenProject.do_action: the file is loaded into a new window, or into
\* context.app, the current window, on the first open; what the load does to
\* the window that receives it is decided in MainWindow
do_OpenProject(ctx, params, ans) ==
    IF OPEN_IN_NEW /\ ~ Get(params, "first_open", FALSE)
    THEN external(external(ctx, "new_window"), "new_window.loadProjectFile")
    ELSE external(ctx, "loadProjectFile")

ask_ImportDeepPoseKit(ctx, params, ans) ==
    IF ans.filename = ""
    THEN Ask("False", params, <<Dialog("FileDialog.open", 0)>>)
    ELSE IF ans.missing
         THEN \* ans.okay: the dialog was accepted with every file located
              Ask(IF ans.okay THEN "True" ELSE "False",
                  IF ans.okay THEN Put(params, "filename", ans.filename) ELSE params,
                  <<Dialog("FileDialog.open", 0), Dialog("MissingFilesDialog", 0)>>)
         ELSE Ask("True", Put(params, "filename", ans.filename),
                  <<Dialog("FileDialog.open", 0)>>)

\* ImportDeepPoseKit, ImportLEAP, ImportCoco and ImportDeepLabCut.do_action:
\* the labels are read from the file, a new main window is made
\* (context.app.__class__()) and the labels are loaded into that window
do_Import(ctx, params, ans) ==
    external(external(ctx, "new_window"), "new_window.loadLabelsObject")

ask_Import(ctx, params, ans) == ask_filename(params, ans, "FileDialog.open", "filename")

\* _try_save that marks the savepoint before the file is written and redraws
\* only after a successful save
try_save_marking_first(ctx, filename, ans) ==
    LET called == external(changestack_savepoint(ctx), "save_file")
    IN  IF ans.raises
        THEN [ctx |-> [called EXCEPT !.log = Append(@, Dialog("QMessageBox", 0))],
              success |-> FALSE]
        ELSE [ctx |-> external(called, "plotFrame"), success |-> TRUE]

\* SaveProjectAs._try_save; ans.raises says that Labels.save_file raises
try_save(ctx, filename, ans) ==
    LET called == external(ctx, "save_file")
        saved == IF ans.raises
                 THEN [called EXCEPT !.log = Append(@, Dialog("QMessageBox", 0))]
                 ELSE changestack_savepoint(called)
    IN  [ctx |-> external(saved, "plotFrame"), success |-> ~ ans.raises]

do_SaveProjectAs(ctx, params, ans) ==
    LET r == try_save(ctx, params.filename, ans)
    IN  IF r.success THEN [r.ctx EXCEPT !.state.filename = params.filename] ELSE r.ctx

ask_SaveProjectAs(ctx, params, ans) == ask_filename(params, ans, "FileDialog.save", "filename")

ask_SaveProject(ctx, params, ans) ==
    IF ctx.state.filename # None
    THEN Ask("True", Put(params, "filename", ctx.state.filename), <<>>)
    ELSE ask_SaveProjectAs(ctx, params, ans)

do_ExportAnalysisFile(ctx, params, ans) == external(ctx, "write_analysis")

ask_ExportAnalysisFile(ctx, params, ans) ==
    ask_filename(params, ans, "FileDialog.save", "output_path")

do_ExportLabeledClip(ctx, params, ans) == external(ctx, "save_labeled_video")

\* state["filename"] + ".avi" raises TypeError when the project has no file
ask_ExportLabeledClip(ctx, params, ans) ==
    IF ctx.state.has_frame_range
    THEN IF ~ ans.okay
         THEN Ask("False", params, <<Dialog("QInputDialog.getInt", 0)>>)
         ELSE IF ctx.state.filename = None
         THEN AskRaises("TypeError", params, <<Dialog("QInputDialog.getInt", 0)>>)
         ELSE IF ans.filename = ""
              THEN Ask("False", params,
                       <<Dialog("QInputDialog.getInt", 0), Dialog("FileDialog.save", 0)>>)
              ELSE Ask("True", Put(Put(params, "filename", ans.filename), "fps", ans.num),
                       <<Dialog("QInputDialog.getInt", 0), Dialog("FileDialog.save", 0)>>)
    ELSE Ask("False", params, <<Dialog("QMessageBox", 0)>>)

do_ExportLabeledFrames(ctx, params, ans) == external(ctx, "save_file")

\* state["filename"] + ".slp" raises TypeError when the project has no file
ask_ExportLabeledFrames(ctx, params, ans) ==
    IF ctx.state.filename = None
    THEN AskRaises("TypeError", params, <<>>)
    ELSE ask_filename(params, ans, "FileDialog.save", "filename")

(***************************************************************************)
(* Navigation commands                                                     *)
(***************************************************************************)
\* labels.frames(video, from_frame_idx, reverse): the labeled frames of the
\* video after (before) the frame index, nearest first
frames(L, video, from_frame_idx, reverse) ==
    LET after == SelectSeq(find(L, video),
                     LAMBDA i : IF reverse THEN LFS(L)[i].frame_idx < from_frame_idx
                                ELSE LFS(L)[i].frame_idx > from_frame_idx)
        keyed == [k \in 1 .. Len(after) |->
                     <<IF reverse THEN 0 - LFS(L)[after[k]].frame_idx
                       ELSE LFS(L)[after[k]].frame_idx, after[k]>>]
        ordered == sorted(keyed)
    IN  [k \in 1 .. Len(ordered) |-> ordered[k][2]]

\* LabeledFrame.has_user_instances
has_user_instances(lf) == \E inst \in Range(lf.instances) : ~ inst.pred

\* _plot_if_next that runs the iterator to its end
plot_if_next_last(ctx, frame_iterator) ==
    IF frame_iterator = <<>> THEN ctx
    ELSE [ctx EXCEPT !.state.frame_idx =
              LFS(ctx.labels)[frame_iterator[Len(frame_iterator)]].frame_idx]

\* GoIteratorCommand._plot_if_next: next(frame_iterator), and
\* context.state["frame_idx"] = next_lf.frame_idx unless the iterator is
\* exhausted
plot_if_next(ctx, frame_iterator) ==
    IF frame_iterator = <<>> THEN ctx
    ELSE [ctx EXCEPT !.state.frame_idx = LFS(ctx.labels)[frame_iterator[1]].frame_idx]

do_GoPreviousLabeledFrame(ctx, params, ans) ==
    plot_if_next(ctx, frames(ctx.labels, ctx.state.video, ctx.state.frame_idx, TRUE))

do_GoNextLabeledFrame(ctx, params, ans) ==
    plot_if_next(ctx, frames(ctx.labels, ctx.state.video, ctx.state.frame_idx, FALSE))

do_GoNextUserLabeledFrame(ctx, params, ans) ==
    plot_if_next(ctx,
        SelectSeq(frames(ctx.labels, ctx.state.video, ctx.state.frame_idx, FALSE),
                  LAMBDA i : has_user_instances(LFS(ctx.labels)[i])))

\* NavCommand.go_to
go_to(ctx, frame_idx, video) ==
    [ctx EXCEPT
        !.state.video = IF video # None THEN video ELSE @,
        !.state.frame_idx = frame_idx]

\* GoNextSuggestedFrame.do_action; labels.get_next_suggestion answers with the
\* entry ans.num of the suggestion list, or with None (ans.num = 0)
do_GoSuggestedFrame(ctx, params, ans) ==
    IF ans.num = 0 THEN ctx
    ELSE LET next_suggestion_frame == ctx.labels.suggestions[ans.num]
         IN  [go_to(ctx, next_suggestion_frame[2], next_suggestion_frame[1])
                 EXCEPT !.state.suggestion_idx = ans.num - 1]

\* GoNextTrackFrame that takes a track starting at the current frame as later
do_GoNextTrackFrame_inclusive(ctx, params, ans) ==
    LET video == ctx.state.video
        cur_idx == ctx.state.frame_idx
        track_ranges == get_track_occupancy(ctx.labels, video)
        later_tracks == sorted(SelectSeq(track_ranges, LAMBDA tr : tr[1] >= cur_idx))
    IN  IF later_tracks = <<>> THEN ctx
        ELSE LET next_idx == later_tracks[1][1]
                 next_track == later_tracks[1][2]
                 moved == go_to(ctx, next_idx, None)
                 lf == [instances |-> instances_at(ctx.labels, video, next_idx)]
                 track_instances == SelectSeq(instances_to_show(lf),
                                              LAMBDA inst : inst.track = next_track)
             IN  IF track_instances = <<>> THEN moved
                 ELSE [moved EXCEPT !.state.instance = track_instances[1].id]

do_GoNextTrackFrame(ctx, params, ans) ==
    LET video == ctx.state.video
        cur_idx == ctx.state.frame_idx
        track_ranges == get_track_occupancy(ctx.labels, video)
        later_tracks == sorted(SelectSeq(track_ranges, LAMBDA tr : tr[1] > cur_idx))
    IN  IF later_tracks = <<>> THEN ctx
        ELSE LET next_idx == later_tracks[1][1]
                 next_track == later_tracks[1][2]
                 moved == go_to(ctx, next_idx, None)
                 lf == [instances |-> instances_at(ctx.labels, video, next_idx)]
                 track_instances == SelectSeq(instances_to_show(lf),
                                              LAMBDA inst : inst.track = next_track)
             IN  IF track_instances = <<>> THEN moved
                 ELSE [moved EXCEPT !.state.instance = track_instances[1].id]

do_GoFrameGui(ctx, params, ans) == go_to(ctx, params.frame_idx, None)

\* QInputDialog.getInt answers a frame number in 1 .. video.frames; without a
\* video state["video"].frames raises AttributeError before the prompt
ask_GoFrameGui(ctx, params, ans) ==
    IF ctx.state.video = None
    THEN AskRaises("AttributeError", params, <<>>)
    ELSE Ask(IF ans.okay THEN "True" ELSE "False",
             Put(params, "frame_idx", ans.num - 1),
             <<Dialog("QInputDialog.getInt", 0)>>)

\* player.setSeekbarSelection(from_frame_idx, to_frame_idx): a call on the
\* player and nothing else
do_SelectToFrameGui(ctx, params, ans) == external(ctx, "setSeekbarSelection")

ask_SelectToFrameGui(ctx, params, ans) ==
    IF ctx.state.video = None
    THEN AskRaises("AttributeError", params, <<>>)
    ELSE Ask(IF ans.okay THEN "True" ELSE "False",
             Put(Put(params, "from_frame_idx", ctx.state.frame_idx),
                 "to_frame_idx", ans.num - 1),
             <<Dialog("QInputDialog.getInt", 0)>>)

(***************************************************************************)
(* Editing commands: videos                                                *)
(***************************************************************************)
\* the loop of AddVideo.do_action with one history entry for the whole list
RECURSIVE add_videos_one_entry(_, _)
add_videos_one_entry(ctx, n) ==
    IF n = 0 THEN ctx
    ELSE LET video == "new" \o ToString(ctx.labels.videos_made + 1)
             added == [ctx EXCEPT !.labels.videos = Append(@, video),
                                  !.labels.videos_made = @ + 1]
         IN  IF n = 1 THEN changestack_push(added, "add video")
             ELSE add_videos_one_entry(added, n - 1)

\* AddVideo.do_action: the loop over import_list, n items left; every item
\* makes a new Video object
RECURSIVE add_videos(_, _)
add_videos(ctx, n) ==
    IF n = 0 THEN ctx
    ELSE LET video == "new" \o ToString(ctx.labels.videos_made + 1)
             added == [ctx EXCEPT !.labels.videos = Append(@, video),
                                  !.labels.videos_made = @ + 1]
         IN  add_videos(changestack_push(added, "add video"), n - 1)

do_AddVideo(ctx, params, ans) ==
    LET done == add_videos(ctx, params.import_list)
        video == IF params.import_list = 0 THEN None
                 ELSE done.labels.videos[Len(done.labels.videos)]
    IN  IF ctx.state.video = None
        THEN [done EXCEPT !.state.video = video]
        ELSE done

\* ImportVideos().go() answers with a list of ans.num items
ask_AddVideo(ctx, params, ans) ==
    Ask(IF ans.num > 0 THEN "True" ELSE "False",
        Put(params, "import_list", ans.num),
        <<Dialog("ImportVideos", 0)>>)

\* video.backend.filename: labels.backend holds <<video, filename>> for the
\* videos whose file was replaced; the others have the file they were made from
backend_filename(L, video) ==
    IF \E p \in L.backend : p[1] = video
    THEN (CHOOSE p \in L.backend : p[1] = video)[2]
    ELSE video \o ".mp4"

\* the loop of ReplaceVideo.do_action over zip(labels.videos, new_paths), from
\* position k on
RECURSIVE replace_videos(_, _, _)
replace_videos(ctx, new_paths, k) ==
    IF k > Min({Len(ctx.labels.videos), Len(new_paths)}) THEN ctx
    ELSE LET video == ctx.labels.videos[k]
             new_path == new_paths[k]
         IN  replace_videos(
                 IF new_path # backend_filename(ctx.labels, video)
                 THEN external([ctx EXCEPT !.labels.backend =
                                    {p \in @ : p[1] # video} \cup {<<video, new_path>>}],
                               "backend.reset")
                 ELSE ctx,
                 new_paths, k + 1)

do_ReplaceVideo(ctx, params, ans) == replace_videos(ctx, params.new_video_paths, 1)

\* MissingFilesDialog(filenames=paths, replace=True) edits the list of paths
\* in place: the user gives another file at the positions ans.replaced
ask_ReplaceVideo(ctx, params, ans) ==
    LET videos == ctx.labels.videos
        paths == [k \in 1 .. Len(videos) |->
                     IF k \in ans.replaced
                     THEN "moved/" \o backend_filename(ctx.labels, videos[k])
                     ELSE backend_filename(ctx.labels, videos[k])]
    IN  IF ~ ans.okay
        THEN Ask("False", params, <<Dialog("MissingFilesDialog", 0)>>)
        ELSE Ask("True", Put(params, "new_video_paths", paths),
                 <<Dialog("MissingFilesDialog", 0)>>)

\* labels.remove_video(video): the video and its labeled frames leave the project
remove_video(L, video) ==
    [L EXCEPT !.videos = SelectSeq(@, LAMBDA v : v # video),
              !.labeled_frames = SelectSeq(@, LAMBDA lf : lf.video # video),
              !.suggestions = SelectSeq(@, LAMBDA sg : sg[1] # video)]

\* RemoveVideo.do_action that leaves the view on the video removed
do_RemoveVideo_keeping_view(ctx, params, ans) ==
    [ctx EXCEPT !.labels = remove_video(@, params.video)]

do_RemoveVideo(ctx, params, ans) ==
    LET video == params.video
        removed == [ctx EXCEPT !.labels = remove_video(@, video)]
    IN  IF ctx.state.video = video
        THEN IF Len(removed.labels.videos) > 0
             THEN [removed EXCEPT !.state.video =
                      removed.labels.videos[Len(removed.labels.videos)]]
             ELSE [removed EXCEPT !.state.video = None]
        ELSE removed

ask_RemoveVideo(ctx, params, ans) ==
    LET video == ctx.state.selected_video
        n == Len(find(ctx.labels, video))
    IN  IF video = None THEN Ask("False", params, <<>>)
        ELSE IF n > 0 /\ ~ ans.yes
             THEN Ask("False", params, <<Dialog("QMessageBox.critical", n)>>)
             ELSE Ask("True", Put(params, "video", video),
                      IF n > 0 THEN <<Dialog("QMessageBox.critical", n)>> ELSE <<>>)

(***************************************************************************)
(* Editing commands: skeleton.  state["skeleton"] is                       *)
(* [nodes, edges, symmetries, id]: the node names in order, the edges as   *)
(* <<source, destination>> pairs, the symmetric pairs and the identity of  *)
(* the Skeleton object.  labels.skeletons lists the Skeleton objects of the *)
(* project and instance.skeleton is the identity of the Skeleton the       *)
(* Instance was made on.  The Skeleton that is state["skeleton"] is read   *)
(* from the state (the editing commands change that object in place); its  *)
(* entry in labels.skeletons is brought up to date when OpenSkeleton puts  *)
(* another object into the state.                                          *)
(***************************************************************************)
\* the Skeleton object with the given identity
skeleton_of(ctx, id) ==
    IF id = ctx.state.skeleton.id THEN ctx.state.skeleton
    ELSE CHOOSE skeleton \in Range(ctx.labels.skeletons) : skeleton.id = id

\* str.endswith
endswith(string, suffix) ==
    /\ Len(string) >= Len(suffix)
    /\ SubSeq(string, Len(string) - Len(suffix) + 1, Len(string)) = suffix

ask_OpenSkeleton(ctx, params, ans) ==
    ask_filename(params, ans, "FileDialog.open", "filename")

\* OpenSkeleton.do_action: Skeleton.load_json answers with a new Skeleton of
\* the content ans.skeleton, Skeleton.load_all_hdf5 with a list of one such
\* Skeleton, or with the empty list when ans.skeleton has no nodes; a file of
\* another suffix is not read.  The skeleton of the state is then appended
\* to labels.skeletons unless it is there; the Skeleton that was in the state
\* stays as it is in labels.skeletons.
do_OpenSkeleton(ctx, params, ans) ==
    LET filename == params.filename
        made == [nodes |-> ans.skeleton.nodes, edges |-> ans.skeleton.edges,
                 symmetries |-> ans.skeleton.symmetries,
                 id |-> "sk" \o ToString(Len(ctx.labels.skeletons) + 1)]
        replaced(c) ==
            [c EXCEPT !.state.skeleton = made,
                      !.labels.skeletons =
                          [k \in 1 .. Len(@) |-> IF @[k].id = c.state.skeleton.id
                                                 THEN c.state.skeleton ELSE @[k]]]
        loaded ==
            IF endswith(filename, ".json")
            THEN replaced(external(ctx, "load_json"))
            ELSE IF endswith(filename, ".h5") \/ endswith(filename, ".hdf5")
            THEN IF ans.skeleton.nodes # <<>>
                 THEN replaced(external(ctx, "load_all_hdf5"))
                 ELSE external(ctx, "load_all_hdf5")
            ELSE ctx
    IN  IF loaded.state.skeleton.id \notin {skeleton.id : skeleton \in Range(loaded.labels.skeletons)}
        THEN [loaded EXCEPT !.labels.skeletons = Append(@, loaded.state.skeleton)]
        ELSE loaded

ask_SaveSkeleton(ctx, params, ans) ==
    ask_filename(params, ans, "FileDialog.save", "filename")

\* SaveSkeleton.do_action: a file of another suffix is not written
do_SaveSkeleton(ctx, params, ans) ==
    LET filename == params.filename
    IN  IF endswith(filename, ".json") THEN external(ctx, "save_json")
        ELSE IF endswith(filename, ".h5") \/ endswith(filename, ".hdf5")
        THEN external(ctx, "save_hdf5")
        ELSE ctx

\* the loop of NewNode with the counter incremented before the name is made
RECURSIVE find_part_name_skipping(_, _, _)
find_part_name_skipping(skeleton, part_name, i) ==
    IF part_name \in Range(skeleton.nodes)
    THEN find_part_name_skipping(skeleton, "new_part_" \o ToString(i + 1), i + 1)
    ELSE [part_name |-> part_name, i |-> i]

\* the loop of NewNode.do_action, which tries part_name and then new_part_<i>
RECURSIVE find_part_name(_, _, _)
find_part_name(skeleton, part_name, i) ==
    IF part_name \in Range(skeleton.nodes)
    THEN find_part_name(skeleton, "new_part_" \o ToString(i), i + 1)
    ELSE [part_name |-> part_name, i |-> i]

do_NewNode(ctx, params, ans) ==
    LET part_name == find_part_name(ctx.state.skeleton, "new_part", 1).part_name
    IN  [ctx EXCEPT !.state.skeleton.nodes = Append(@, part_name)]

\* Skeleton.delete_node: the node leaves with its edges and symmetries
do_DeleteNode(ctx, params, ans) ==
    LET node == ctx.state.selected_node
    IN  [ctx EXCEPT
            !.state.skeleton.nodes = SelectSeq(@, LAMBDA n : n # node),
            !.state.skeleton.edges = {e \in @ : e[1] # node /\ e[2] # node},
            !.state.skeleton.symmetries = {e \in @ : e[1] # node /\ e[2] # node}]

\* Skeleton.relabel_node(node.name, name)
do_SetNodeName(ctx, params, ans) ==
    LET re(n) == IF n = params.node THEN params.name ELSE n
    IN  [ctx EXCEPT
            !.state.skeleton.nodes = [k \in 1 .. Len(@) |-> re(@[k])],
            !.state.skeleton.edges = {<<re(e[1]), re(e[2])>> : e \in @},
            !.state.skeleton.symmetries = {<<re(e[1]), re(e[2])>> : e \in @}]

\* Skeleton.add_symmetry / get_symmetry and delete_symmetry
do_SetNodeSymmetry(ctx, params, ans) ==
    LET node == params.node
        symmetry == params.symmetry
    IN  IF symmetry # ""
        THEN [ctx EXCEPT !.state.skeleton.symmetries =
                             @ \cup {<<node, symmetry>>, <<symmetry, node>>}]
        ELSE [ctx EXCEPT !.state.skeleton.symmetries =
                             {e \in @ : e[1] # node /\ e[2] # node}]

\* NewEdge.do_action that looks only at the source node
do_NewEdge_from_known(ctx, params, ans) ==
    LET src_node == params.src_node
        dst_node == params.dst_node
    IN  IF src_node \notin Range(ctx.state.skeleton.nodes)
        THEN ctx
        ELSE [ctx EXCEPT !.state.skeleton.edges = @ \cup {<<src_node, dst_node>>}]

do_NewEdge(ctx, params, ans) ==
    LET src_node == params.src_node
        dst_node == params.dst_node
    IN  IF \/ src_node \notin Range(ctx.state.skeleton.nodes)
           \/ dst_node \notin Range(ctx.state.skeleton.nodes)
        THEN ctx
        ELSE [ctx EXCEPT !.state.skeleton.edges = @ \cup {<<src_node, dst_node>>}]

ask_DeleteEdge(ctx, params, ans) ==
    Ask("True", Put(params, "edge", ctx.state.selected_edge), <<>>)

do_DeleteEdge(ctx, params, ans) ==
    [ctx EXCEPT !.state.skeleton.edges = @ \ {params.edge}]

(***************************************************************************)
(* Editing commands: deleting predictions.  A list of (labeled frame,      *)
(* instance) tuples is a sequence of <<frame index, instance id>>.         *)
(***************************************************************************)
\* [(lf, inst) for lf in frames for inst in lf]
RECURSIVE frame_instances(_, _)
frame_instances(L, fs) ==
    IF fs = <<>> THEN <<>>
    ELSE [k \in 1 .. Len(LFS(L)[Head(fs)].instances) |->
             <<Head(fs), LFS(L)[Head(fs)].instances[k]>>]
         \o frame_instances(L, Tail(fs))

Pairs(tuples) == [k \in 1 .. Len(tuples) |-> <<tuples[k][1], tuples[k][2].id>>]

\* InstanceDeleteCommand._confirm_deletion; ans.yes is the answer to the prompt
confirm_deletion(lf_inst_list, ans) ==
    [ret |-> IF ans.yes THEN "True" ELSE "False",
     shown |-> <<Dialog("QMessageBox.critical", Len(lf_inst_list))>>]

\* DeleteFramePredictions._confirm_deletion
confirm_deletion_frame(lf_inst_list, ans) == [ret |-> "True", shown |-> <<>>]

RECURSIVE remove_instances(_, _)
remove_instances(ctx, lf_inst_list) ==
    IF lf_inst_list = <<>> THEN ctx
    ELSE remove_instances(
             remove_instance(ctx, Head(lf_inst_list)[1], Head(lf_inst_list)[2], TRUE),
             Tail(lf_inst_list))

\* InstanceDeleteCommand._do_deletion
do_deletion(ctx, lf_inst_list) ==
    changestack_push(update_cache(remove_instances(ctx, lf_inst_list)), "delete instances")

\* InstanceDeleteCommand.do_action
do_InstanceDelete(ctx, params, ans) == do_deletion(ctx, params.lf_instance_list)

list_DeleteAllPredictions(ctx, params) ==
    Pairs(SelectSeq(frame_instances(ctx.labels, [i \in 1 .. Len(LFS(ctx.labels)) |-> i]),
                    LAMBDA t : t[2].pred))

\* a candidate list of the current frame that does not look at the type
list_DeleteFramePredictions_any(ctx, params) ==
    Pairs(frame_instances(ctx.labels,
              find_idx(ctx.labels, ctx.state.video, ctx.state.frame_idx)))

list_DeleteFramePredictions(ctx, params) ==
    Pairs(SelectSeq(frame_instances(ctx.labels,
                        find_idx(ctx.labels, ctx.state.video, ctx.state.frame_idx)),
                    LAMBDA t : t[2].pred))

list_DeleteClipPredictions(ctx, params) ==
    Pairs(SelectSeq(frame_instances(ctx.labels,
                        find_range(ctx.labels, ctx.state.video,
                                   ctx.state.frame_range[1], ctx.state.frame_range[2])),
                    LAMBDA t : t[2].pred))

\* is_bounded of DeleteAreaPredictions: the points that are not NaN lie
\* between the corners
is_bounded(inst, min_corner, max_corner) ==
    LET valid_points == {inst.points[n] : n \in {m \in DOMAIN inst.points : ~ inst.points[m].nan}}
    IN  /\ \A p \in valid_points : p.x >= min_corner[1] /\ p.y >= min_corner[2]
        /\ \A p \in valid_points : p.x <= max_corner[1] /\ p.y <= max_corner[2]

\* a candidate list over the predictions of every video
list_DeleteAreaPredictions_any_video(ctx, params) ==
    Pairs(SelectSeq(frame_instances(ctx.labels, [i \in 1 .. Len(LFS(ctx.labels)) |-> i]),
                    LAMBDA t : t[2].pred /\ is_bounded(t[2], params.min_corner, params.max_corner)))

list_DeleteAreaPredictions(ctx, params) ==
    Pairs(SelectSeq(frame_instances(ctx.labels, find(ctx.labels, ctx.state.video)),
                    LAMBDA t : t[2].pred /\ is_bounded(t[2], params.min_corner, params.max_corner)))

\* a candidate list that takes the threshold itself as a low score
list_DeleteLowScorePredictions_upto(ctx, params) ==
    Pairs(SelectSeq(frame_instances(ctx.labels, find(ctx.labels, ctx.state.video)),
                    LAMBDA t : t[2].pred /\ t[2].score <= params.score_threshold))

list_DeleteLowScorePredictions(ctx, params) ==
    Pairs(SelectSeq(frame_instances(ctx.labels, find(ctx.labels, ctx.state.video)),
                    LAMBDA t : t[2].pred /\ t[2].score < params.score_threshold))

\* extra_instances that forgets to sort by score
extra_instances_unsorted(lf, count_thresh) ==
    LET preds == predicted_instances(lf)
    IN  [k \in 1 .. Len(preds) - count_thresh |-> preds[k]]

\* sorted(lf.predicted_instances, key=attrgetter("score"))[:-count_thresh]
extra_instances(lf, count_thresh) ==
    LET preds == predicted_instances(lf)
        by_score == sorted([k \in 1 .. Len(preds) |-> <<preds[k].score, preds[k]>>])
    IN  [k \in 1 .. Len(by_score) - count_thresh |-> by_score[k][2]]

RECURSIVE frame_limit_list(_, _, _)
frame_limit_list(L, fs, count_thresh) ==
    IF fs = <<>> THEN <<>>
    ELSE LET lf == LFS(L)[Head(fs)]
             extra == IF Len(predicted_instances(lf)) > count_thresh
                      THEN extra_instances(lf, count_thresh) ELSE <<>>
         IN  [k \in 1 .. Len(extra) |-> <<Head(fs), extra[k].id>>]
             \o frame_limit_list(L, Tail(fs), count_thresh)

list_DeleteFrameLimitPredictions(ctx, params) ==
    frame_limit_list(ctx.labels, find(ctx.labels, ctx.state.video), params.count_threshold)

\* cls.get_frame_instance_list
get_frame_instance_list(cmd, ctx, params) ==
    CASE cmd = "DeleteAllPredictions" -> list_DeleteAllPredictions(ctx, params)
      [] cmd = "DeleteFramePredictions" -> list_DeleteFramePredictions(ctx, params)
      [] cmd = "DeleteClipPredictions" -> list_DeleteClipPredictions(ctx, params)
      [] cmd = "DeleteAreaPredictions" -> list_DeleteAreaPredictions(ctx, params)
      [] cmd = "DeleteLowScorePredictions" -> list_DeleteLowScorePredictions(ctx, params)
      [] cmd = "DeleteFrameLimitPredictions" -> list_DeleteFrameLimitPredictions(ctx, params)

\* cls._confirm_deletion
cls_confirm_deletion(cmd, lf_inst_list, ans) ==
    IF cmd = "DeleteFramePredictions"
    THEN confirm_deletion_frame(lf_inst_list, ans)
    ELSE confirm_deletion(lf_inst_list, ans)

\* InstanceDeleteCommand.ask
ask_InstanceDelete(cmd, ctx, params, ans) ==
    LET lf_inst_list == get_frame_instance_list(cmd, ctx, params)
        confirmed == cls_confirm_deletion(cmd, lf_inst_list, ans)
    IN  Ask(confirmed.ret, Put(params, "lf_instance_list", lf_inst_list), confirmed.shown)

\* DeleteLowScorePredictions.ask; ans.num is the threshold entered
ask_DeleteLowScorePredictions(ctx, params, ans) ==
    LET cmd == "DeleteLowScorePredictions" IN
    IF ans.okay
    THEN LET r == ask_InstanceDelete(cmd, ctx, Put(params, "score_threshold", ans.num), ans)
         IN  Ask(r.ret, r.params, <<Dialog("QInputDialog.getDouble", 0)>> \o r.shown)
    ELSE Ask("None", params, <<Dialog("QInputDialog.getDouble", 0)>>)

\* DeleteFrameLimitPredictions.ask; ans.num is the cap entered
ask_DeleteFrameLimitPredictions(ctx, params, ans) ==
    LET cmd == "DeleteFrameLimitPredictions" IN
    IF ans.okay
    THEN LET r == ask_InstanceDelete(cmd, ctx, Put(params, "count_threshold", ans.num), ans)
         IN  Ask(r.ret, r.params, <<Dialog("QInputDialog.getInt", 0)>> \o r.shown)
    ELSE Ask("None", params, <<Dialog("QInputDialog.getInt", 0)>>)

(***************************************************************************)
(* Editing commands: instances and tracks.  labels.tracks is the list of   *)
(* Track objects, each [id, name, spawned_on]; an instance holds the id.   *)
(***************************************************************************)
TrackOf(L, id) == IF id = NoInst THEN None ELSE InstById(L, id).track

\* a variant that swaps inside the clip selected on the seekbar, if any
do_TransposeInstances_in_clip(ctx, params, ans) ==
    LET instances == params.instances
    IN  IF Len(instances) # 2 THEN ctx
        ELSE LET old_track == TrackOf(ctx.labels, instances[1])
                 new_track == TrackOf(ctx.labels, instances[2])
             IN  IF old_track # None /\ new_track # None
                 THEN [ctx EXCEPT !.labels =
                          track_swap(@, ctx.state.video, new_track, old_track,
                                     IF ctx.state.has_frame_range THEN ctx.state.frame_range
                                     ELSE <<ctx.state.frame_idx, ctx.labels.video_frames>>)]
                 ELSE ctx

do_TransposeInstances(ctx, params, ans) ==
    LET instances == params.instances
    IN  IF Len(instances) # 2 THEN ctx
        ELSE LET old_track == TrackOf(ctx.labels, instances[1])
                 new_track == TrackOf(ctx.labels, instances[2])
             IN  IF old_track # None /\ new_track # None
                 THEN [ctx EXCEPT !.labels =
                          track_swap(@, ctx.state.video, new_track, old_track,
                                     <<ctx.state.frame_idx, ctx.labels.video_frames>>)]
                 ELSE ctx

do_DeleteSelectedInstance(ctx, params, ans) ==
    LET selected_inst == ctx.state.instance
    IN  IF selected_inst = NoInst THEN ctx
        ELSE remove_instance(ctx, labeled_frame(ctx), selected_inst, FALSE)

\* for inst in filter(lambda inst: inst.track == track, lf.instances):
\*     context.labels.remove_instance(lf, inst)
\* The filter reads lf.instances by position while remove_instance shortens
\* the same list: after a removal at position pos the iterator goes on at
\* pos + 1 of the shortened list.
RECURSIVE remove_track_instances(_, _, _, _)
remove_track_instances(ctx, i, track, pos) ==
    LET insts == LFS(ctx.labels)[i].instances
    IN  IF pos > Len(insts) THEN ctx
        ELSE IF insts[pos].track = track
             THEN remove_track_instances(remove_instance(ctx, i, insts[pos].id, FALSE),
                                         i, track, pos + 1)
             ELSE remove_track_instances(ctx, i, track, pos + 1)

RECURSIVE remove_track_frames(_, _, _)
remove_track_frames(ctx, fs, track) ==
    IF fs = <<>> THEN ctx
    ELSE remove_track_frames(remove_track_instances(ctx, Head(fs), track, 1), Tail(fs), track)

do_DeleteSelectedInstanceTrack(ctx, params, ans) ==
    LET selected_inst == ctx.state.instance
    IN  IF selected_inst = NoInst THEN ctx
        ELSE LET track == TrackOf(ctx.labels, selected_inst)
                 removed == remove_instance(ctx, labeled_frame(ctx), selected_inst, FALSE)
             IN  IF track # None
                 THEN remove_track_frames(removed, find(removed.labels, removed.state.video), track)
                 ELSE removed

\* a variant that moves the selected instance into the new track without
\* moving anything out of it
do_SetSelectedInstanceTrack_keeping(ctx, params, ans) ==
    LET selected_instance == ctx.state.instance
        new_track == params.new_track
    IN  IF selected_instance = NoInst THEN ctx
        ELSE LET old_track == TrackOf(ctx.labels, selected_instance)
             IN  IF old_track = None
                 THEN [ctx EXCEPT !.labels =
                          track_set_instance(@, labeled_frame(ctx),
                                             selected_instance, new_track)]
                 ELSE LET frame_range ==
                              IF ctx.state.has_frame_range
                              THEN ctx.state.frame_range
                              ELSE <<ctx.state.frame_idx, ctx.labels.video_frames>>
                      IN  [ctx EXCEPT !.labels =
                              track_swap(@, ctx.state.video, new_track, old_track, frame_range)]

\* a variant that swaps from the current frame to the last whether or not a
\* clip is selected on the seekbar
do_SetSelectedInstanceTrack_to_end(ctx, params, ans) ==
    LET selected_instance == ctx.state.instance
        new_track == params.new_track
    IN  IF selected_instance = NoInst THEN ctx
        ELSE LET old_track == TrackOf(ctx.labels, selected_instance)
             IN  IF old_track = None
                 THEN LET new_track_instances ==
                              find_track_occupancy(ctx.labels, ctx.state.video, new_track,
                                  <<ctx.state.frame_idx, ctx.state.frame_idx + 1>>)
                          moved_out == SetTracks(ctx.labels, new_track_instances, None)
                      IN  [ctx EXCEPT !.labels =
                              track_set_instance(moved_out, labeled_frame(ctx),
                                                 selected_instance, new_track)]
                 ELSE [ctx EXCEPT !.labels =
                          track_swap(@, ctx.state.video, new_track, old_track,
                                     <<ctx.state.frame_idx, ctx.labels.video_frames>>)]

do_SetSelectedInstanceTrack(ctx, params, ans) ==
    LET selected_instance == ctx.state.instance
        new_track == params.new_track
    IN  IF selected_instance = NoInst THEN ctx
        ELSE LET old_track == TrackOf(ctx.labels, selected_instance)
             IN  IF old_track = None
                 THEN LET new_track_instances ==
                              find_track_occupancy(ctx.labels, ctx.state.video, new_track,
                                  <<ctx.state.frame_idx, ctx.state.frame_idx + 1>>)
                          moved_out == SetTracks(ctx.labels, new_track_instances, None)
                      IN  [ctx EXCEPT !.labels =
                              track_set_instance(moved_out, labeled_frame(ctx),
                                                 selected_instance, new_track)]
                 ELSE LET frame_range ==
                              IF ctx.state.has_frame_range
                              THEN ctx.state.frame_range
                              ELSE <<ctx.state.frame_idx, ctx.labels.video_frames>>
                      IN  [ctx EXCEPT !.labels =
                              track_swap(@, ctx.state.video, new_track, old_track, frame_range)]

(***************************************************************************)
(* str.isnumeric() and int() of a track name.  The names of the model are  *)
(* the decimal forms "0", "1", ... of the numbers up to limit, "03" (a      *)
(* number written with a leading zero), "U+00B2" (standing for the name     *)
(* that is the one character SUPERSCRIPT TWO, which isnumeric() accepts and *)
(* int() rejects with ValueError) and names of letters.                     *)
(***************************************************************************)
IsDecimal(name, limit) == \E n \in 0 .. limit : ToString(n) = name

IsNumeric(name, limit) == IsDecimal(name, limit) \/ name \in {"03", "U+00B2"}

\* int(name) returns
HasInt(name, limit) == IsDecimal(name, limit) \/ name = "03"

IntOf(name, limit) ==
    IF name = "03" THEN 3 ELSE CHOOSE n \in 0 .. limit : ToString(n) = name

do_SetTrackName(ctx, params, ans) ==
    [ctx EXCEPT !.labels.tracks =
        [k \in 1 .. Len(@) |->
            IF @[k].id = params.track THEN [@[k] EXCEPT !.name = params.name] ELSE @[k]]]

\* VideoFrameSuggestions.suggest answers with the list ans.suggestions
do_GenerateSuggestions(ctx, params, ans) ==
    [external(ctx, "MessageDialog") EXCEPT !.labels.suggestions = ans.suggestions]

(***************************************************************************)
(* Editing commands: points.  inst.points maps the nodes that have a point *)
(* in the instance to [x, y, visible, nan]; nan says that the              *)
(* coordinates are NaN (Point.isnan()).                                    *)
(***************************************************************************)
Point(x, y, visible) == [x |-> x, y |-> y, visible |-> visible, nan |-> FALSE]

NanPoint(visible) == [x |-> 0, y |-> 0, visible |-> visible, nan |-> TRUE]

\* replace the instance with the given id by change(instance)
UpdateInst(L, id, change(_)) ==
    [L EXCEPT !.labeled_frames =
        [i \in 1 .. Len(@) |->
            [@[i] EXCEPT !.instances =
                [k \in 1 .. Len(@) |-> IF @[k].id = id THEN change(@[k]) ELSE @[k]]]]]

\* AddMissingInstanceNodes.add_nodes_from_template over nodes, the nodes of
\* instance.skeleton: the aligned template has NaN for the nodes of
\* ans.template_nan and ans.xy for the others
RECURSIVE add_nodes_from_template(_, _, _, _)
add_nodes_from_template(points, nodes, visible, ans) ==
    IF nodes = <<>> THEN points
    ELSE LET node == Head(nodes)
             filled == IF node \notin DOMAIN points \/ points[node].nan
                       THEN Put(points, node,
                                IF node \in ans.template_nan THEN NanPoint(visible)
                                ELSE Point(ans.xy[1], ans.xy[2], visible))
                       ELSE points
         IN  add_nodes_from_template(filled, Tail(nodes), visible, ans)

\* AddMissingInstanceNodes.add_random_nodes over nodes, the nodes of
\* state["skeleton"]: get_xy_in_rect answers ans.xy
RECURSIVE add_random_nodes(_, _, _, _)
add_random_nodes(points, nodes, visible, ans) ==
    IF nodes = <<>> THEN points
    ELSE LET node == Head(nodes)
             filled == IF node \notin DOMAIN points \/ points[node].nan
                       THEN Put(points, node, Point(ans.xy[1], ans.xy[2], visible))
                       ELSE points
         IN  add_random_nodes(filled, Tail(nodes), visible, ans)

\* add_best_nodes that leaves it at the template
add_best_nodes_template_only(points, instance_nodes, skeleton_nodes, visible, ans) ==
    add_nodes_from_template(points, instance_nodes, visible, ans)

\* AddMissingInstanceNodes.add_best_nodes: the template over the nodes of
\* instance.skeleton, then random placement over those of state["skeleton"]
add_best_nodes(points, instance_nodes, skeleton_nodes, visible, ans) ==
    add_random_nodes(add_nodes_from_template(points, instance_nodes, visible, ans),
                     skeleton_nodes, visible, ans)

\* AddMissingInstanceNodes.add_force_directed_nodes: every node of the graph
\* gets the position of the layout
add_force_directed_nodes(points, nodes, visible, ans) ==
    [n \in DOMAIN points \cup Range(nodes) |->
        IF n \in Range(nodes) THEN Point(ans.xy[1], ans.xy[2], visible) ELSE points[n]]

do_AddMissingInstanceNodes(ctx, params, ans) ==
    LET fill(inst) == [inst EXCEPT !.points =
                          add_best_nodes(@, skeleton_of(ctx, inst.skeleton).nodes,
                                         ctx.state.skeleton.nodes, params.visible, ans)]
    IN  [ctx EXCEPT !.labels = UpdateInst(@, params.instance, fill)]

\* node in instance (Instance.__contains__): the node is in the skeleton of
\* the instance and its point is not NaN
in_instance(node, inst) == node \in DOMAIN inst.points /\ ~ inst.points[node].nan

\* a variant that also shows the points it moves
do_SetInstancePointLocations_showing(ctx, params, ans) ==
    LET nodes_locations == params.nodes_locations
        move(inst) == [inst EXCEPT !.points =
            [n \in DOMAIN @ |->
                IF n \in DOMAIN nodes_locations /\ in_instance(n, inst)
                THEN [@[n] EXCEPT !.x = nodes_locations[n][1],
                                  !.y = nodes_locations[n][2],
                                  !.visible = TRUE]
                ELSE @[n]]]
    IN  [ctx EXCEPT !.labels = UpdateInst(@, params.instance, move)]

do_SetInstancePointLocations(ctx, params, ans) ==
    LET nodes_locations == params.nodes_locations
        move(inst) == [inst EXCEPT !.points =
            [n \in DOMAIN @ |->
                IF n \in DOMAIN nodes_locations /\ in_instance(n, inst)
                THEN [@[n] EXCEPT !.x = nodes_locations[n][1],
                                  !.y = nodes_locations[n][2]]
                ELSE @[n]]]
    IN  [ctx EXCEPT !.labels = UpdateInst(@, params.instance, move)]

do_SetInstancePointVisibility(ctx, params, ans) ==
    LET show(inst) == [inst EXCEPT !.points[params.node].visible = params.visible]
    IN  [ctx EXCEPT !.labels = UpdateInst(@, params.instance, show)]

\* LabeledFrame.unused_predictions: the predictions no instance of the frame
\* was made from
unused_predictions(insts) ==
    SelectSeq(insts, LAMBDA inst : /\ inst.pred
                                   /\ ~ \E other \in Range(insts) : other.from_predicted = inst.id)

\* AddInstance.get_previous_frame_index: <<>> stands for None
get_previous_frame_index(ctx) ==
    LET fs == frames(ctx.labels, ctx.state.video, ctx.state.frame_idx, TRUE)
    IN  IF fs = <<>> THEN <<>> ELSE <<LFS(ctx.labels)[fs[1]].frame_idx>>

\* the choice of the instance to copy in AddInstance.do_action, step by step
\* on [copy_instance, from_predicted, from_prev_frame]: the selected instance
copy_selected(ctx, params, s) ==
    IF params.init_method = "best" /\ s.copy_instance = NoInst /\ ctx.state.instance # NoInst
    THEN [s EXCEPT !.copy_instance = ctx.state.instance,
                   !.from_predicted = ctx.state.instance]
    ELSE s

\* the first prediction of the frame no instance was made from
copy_unused(ctx, params, s, unused) ==
    IF /\ (params.init_method = "best" /\ s.copy_instance = NoInst)
          \/ params.init_method = "prediction"
       /\ Len(unused) > 0
    THEN [s EXCEPT !.copy_instance = unused[1].id, !.from_predicted = unused[1].id]
    ELSE s

\* copy_prior that prefers the last instance of the current frame to the
\* unmatched instance of the previous frame
copy_prior_current_first(ctx, params, s, prev_idx, prev_instances, cur) ==
    IF /\ (params.init_method = "best" /\ s.copy_instance = NoInst)
          \/ params.init_method = "prior_frame"
       /\ prev_idx # <<>>
    THEN IF params.init_method = "best" /\ Len(cur) > 0
         THEN [s EXCEPT !.copy_instance = cur[Len(cur)].id]
         ELSE IF Len(prev_instances) > 0
              THEN [s EXCEPT !.copy_instance = prev_instances[Len(prev_instances)].id,
                             !.from_prev_frame = TRUE]
              ELSE s
    ELSE s

\* an instance of the previous labeled frame, or the last of this frame
copy_prior(ctx, params, s, prev_idx, prev_instances, cur) ==
    IF /\ (params.init_method = "best" /\ s.copy_instance = NoInst)
          \/ params.init_method = "prior_frame"
       /\ prev_idx # <<>>
    THEN IF Len(prev_instances) > Len(cur)
         THEN [s EXCEPT !.copy_instance = prev_instances[Len(cur) + 1].id,
                        !.from_prev_frame = TRUE]
         ELSE IF params.init_method = "best" /\ Len(cur) > 0
              THEN [s EXCEPT !.copy_instance = cur[Len(cur)].id]
              ELSE IF Len(prev_instances) > 0
                   THEN [s EXCEPT !.copy_instance = prev_instances[Len(prev_instances)].id,
                                  !.from_prev_frame = TRUE]
                   ELSE s
    ELSE s

prev_frame_instances(ctx, prev_idx) ==
    IF prev_idx = <<>> THEN <<>>
    ELSE instances_at(ctx.labels, ctx.state.video, prev_idx[1])

copy_source(ctx, params) ==
    copy_prior(ctx, params,
        copy_unused(ctx, params,
            copy_selected(ctx, params,
                [copy_instance |-> params.copy_instance,
                 from_predicted |-> params.copy_instance,
                 from_prev_frame |-> FALSE]),
            unused_predictions(labeled_frame_instances(ctx))),
        get_previous_frame_index(ctx),
        prev_frame_instances(ctx, get_previous_frame_index(ctx)),
        labeled_frame_instances(ctx))

\* the points AddInstance.do_action copies: x, y and visible of the nodes the
\* copied instance has a point for that is not NaN
copied_points(ctx, copy_instance) ==
    IF copy_instance = NoInst THEN <<>>
    ELSE LET src == InstById(ctx.labels, copy_instance).points
         IN  [n \in {m \in Range(ctx.state.skeleton.nodes) :
                        m \in DOMAIN src /\ ~ src[m].nan} |->
                 Point(src[n].x, src[n].y, src[n].visible)]

\* hasattr(instance, "score")
has_score(L, id) == id # NoInst /\ InstById(L, id).pred

\* the nodes the copy left without a point are placed by init_method; the
\* new instance is made on state["skeleton"]
placed_points(ctx, init_method, copied, is_visible, ans) ==
    IF \A n \in Range(ctx.state.skeleton.nodes) : n \in DOMAIN copied
    THEN copied
    ELSE CASE init_method = "force_directed" ->
                  add_force_directed_nodes(copied, ctx.state.skeleton.nodes, is_visible, ans)
           [] init_method = "random" ->
                  add_random_nodes(copied, ctx.state.skeleton.nodes, is_visible, ans)
           [] init_method = "template" ->
                  add_nodes_from_template(copied, ctx.state.skeleton.nodes, is_visible, ans)
           [] OTHER -> add_best_nodes(copied, ctx.state.skeleton.nodes,
                                      ctx.state.skeleton.nodes, is_visible, ans)

\* new_instance_from that takes the track of whatever it copies
new_instance_from_tracked(ctx, params, ans, src) ==
    [id |-> ctx.labels.instances_made + 1,
     pred |-> FALSE,
     score |-> 0,
     skeleton |-> ctx.state.skeleton.id,
     track |-> IF src.copy_instance # NoInst
               THEN TrackOf(ctx.labels, src.copy_instance) ELSE None,
     from_predicted |-> IF has_score(ctx.labels, src.from_predicted)
                        THEN src.from_predicted ELSE NoInst,
     points |-> placed_points(ctx, params.init_method,
                              copied_points(ctx, src.copy_instance),
                              src.copy_instance = NoInst
                                  \/ ~ has_score(ctx.labels, src.copy_instance),
                              ans)]

\* the Instance made by AddInstance.do_action from the choice src
new_instance_from(ctx, params, ans, src) ==
    [id |-> ctx.labels.instances_made + 1,
     pred |-> FALSE,
     score |-> 0,
     skeleton |-> ctx.state.skeleton.id,
     track |-> IF has_score(ctx.labels, src.copy_instance) \/ src.from_prev_frame
               THEN TrackOf(ctx.labels, src.copy_instance) ELSE None,
     from_predicted |-> IF has_score(ctx.labels, src.from_predicted)
                        THEN src.from_predicted ELSE NoInst,
     points |-> placed_points(ctx, params.init_method,
                              copied_points(ctx, src.copy_instance),
                              src.copy_instance = NoInst
                                  \/ ~ has_score(ctx.labels, src.copy_instance),
                              ans)]

\* labels.add_instance(labeled_frame, new_instance), and labels.append of a
\* labeled frame that was not in the project
add_instance(ctx, i, new_instance) ==
    IF i = 0
    THEN [ctx EXCEPT
            !.labels.instances_made = @ + 1,
            !.labels.labeled_frames =
                Append(@, [video |-> ctx.state.video,
                           frame_idx |-> ctx.state.frame_idx,
                           instances |-> <<new_instance>>])]
    ELSE [ctx EXCEPT
            !.labels.instances_made = @ + 1,
            !.labels.labeled_frames[i].instances = Append(@, new_instance)]

do_AddInstance(ctx, params, ans) ==
    IF ctx.state.video = None THEN ctx
    ELSE add_instance(ctx, labeled_frame(ctx),
                      new_instance_from(ctx, params, ans, copy_source(ctx, params)))

(***************************************************************************)
(* The command classes and their class attributes.                         *)
(***************************************************************************)
FileCommands ==
    {"NewProject", "OpenProject", "ImportDeepPoseKit", "ImportLEAP", "ImportCoco",
     "ImportDeepLabCut", "SaveProjectAs", "ExportAnalysisFile", "SaveProject",
     "ExportLabeledClip", "ExportLabeledFrames"}

NavCommands ==
    {"GoPreviousLabeledFrame", "GoNextLabeledFrame", "GoNextUserLabeledFrame",
     "GoNextSuggestedFrame", "GoPrevSuggestedFrame", "GoNextTrackFrame", "GoFrameGui",
     "SelectToFrameGui"}

InstanceDeleteCommands ==
    {"DeleteAllPredictions", "DeleteFramePredictions", "DeleteClipPredictions",
     "DeleteAreaPredictions", "DeleteLowScorePredictions", "DeleteFrameLimitPredictions"}

\* the subclasses of EditCommand
EditCommands ==
    {"AddVideo", "ReplaceVideo", "RemoveVideo", "OpenSkeleton", "NewNode", "DeleteNode",
     "SetNodeName", "SetNodeSymmetry", "NewEdge", "DeleteEdge", "TransposeInstances",
     "DeleteSelectedInstance", "DeleteSelectedInstanceTrack", "DeleteDialogCommand",
     "AddTrack", "SetSelectedInstanceTrack", "SetTrackName", "GenerateSuggestions",
     "MergeProject", "AddInstance", "SetInstancePointLocations",
     "SetInstancePointVisibility", "AddMissingInstanceNodes"}
    \cup InstanceDeleteCommands

Commands == FileCommands \cup NavCommands \cup {"SaveSkeleton"} \cup EditCommands

\* cls.does_edits
does_edits(cmd) == cmd \in EditCommands

\* cls.topics
topics(cmd) ==
    CASE cmd \in {"AddVideo", "ReplaceVideo", "RemoveVideo"} -> <<"video">>
      [] cmd \in {"OpenSkeleton", "NewNode", "DeleteNode", "SetNodeName",
                  "SetNodeSymmetry", "NewEdge", "DeleteEdge"} -> <<"skeleton">>
      [] cmd \in InstanceDeleteCommands -> <<"project_instances">>
      [] cmd = "TransposeInstances" -> <<"project_instances", "tracks">>
      [] cmd = "DeleteSelectedInstance" -> <<"frame", "project_instances", "suggestions">>
      [] cmd = "DeleteSelectedInstanceTrack" -> <<"project_instances", "tracks", "suggestions">>
      [] cmd = "DeleteDialogCommand" -> <<"project_instances">>
      [] cmd \in {"AddTrack", "SetSelectedInstanceTrack"} -> <<"tracks">>
      [] cmd = "SetTrackName" -> <<"tracks", "frame">>
      [] cmd = "GenerateSuggestions" -> <<"suggestions">>
      [] cmd = "MergeProject" -> <<"all">>
      [] cmd = "AddInstance" -> <<"frame", "project_instances", "suggestions">>
      [] cmd = "AddMissingInstanceNodes" -> <<"frame">>
      [] OTHER -> <<>>

\* hasattr(self, "ask_and_do")
has_ask_and_do(cmd) ==
    cmd \in {"DeleteAreaPredictions", "TransposeInstances", "DeleteDialogCommand",
             "MergeProject"}

\* AppCommand.ask
ask_AppCommand(ctx, params, ans) == ask_default(ctx, params, ans)

\* AppCommand.do_action
do_AppCommand(ctx, params, ans) == ctx

\* the class has no ask_and_do
no_ask_and_do(ctx, params, ans) == ctx

\* AppCommand.do_with_signal; do_action is the method of the class, and the
\* log brackets its call
do_with_signal(cmd, ctx, params, ans, do_action(_, _, _)) ==
    LET called == [ctx EXCEPT !.log = Append(@, Ev("do_action", cmd, <<>>, 0))]
        acted == do_action(called, params, ans)
        returned == [acted EXCEPT !.log = Append(@, Ev("do_action_return", cmd, <<>>, 0))]
        signalled == IF topics(cmd) # <<>>
                     THEN signal_update(returned, topics(cmd)) ELSE returned
    IN  IF raised(acted) THEN acted
        ELSE IF does_edits(cmd) THEN changestack_push(signalled, cmd) ELSE signalled

\* execute that goes on whatever ask answered
truthy_whatever(okay) == TRUE

\* "if okay:" of AppCommand.execute: what ask returned, as a truth value
truthy(okay) == okay = "True"

\* AppCommand.execute (CommandContext.execute) with the methods of the class:
\* the context afterwards, what ask returned ("" when the command has
\* ask_and_do) and the params
execute(cmd, ctx, params, ans, ask_and_do(_, _, _), ask(_, _, _), do_action(_, _, _)) ==
    IF has_ask_and_do(cmd)
    THEN [ctx |-> ask_and_do(ctx, params, ans), ret |-> "", params |-> params]
    ELSE LET okay == ask(ctx, params, ans)
             asked == [ctx EXCEPT !.log = @ \o okay.shown]
         IN  IF truthy(okay.ret)
             THEN [ctx |-> do_with_signal(cmd, asked, okay.params, ans, do_action),
                   ret |-> okay.ret, params |-> okay.params]
             ELSE [ctx |-> asked, ret |-> okay.ret, params |-> okay.params]

\* AddTrack.do_action; track names are numeric up to limit
add_track(ctx, params, ans, limit) ==
    LET numeric == {u \in Range(ctx.labels.tracks) : IsNumeric(u.name, limit)}
        track_numbers_used ==
            {IntOf(t.name, limit) : t \in {u \in numeric : HasInt(u.name, limit)}}
        next_number == Max(track_numbers_used \cup {0}) + 1
        new_track == [id |-> "track" \o ToString(ctx.labels.tracks_made + 1),
                      name |-> ToString(next_number),
                      spawned_on |-> ctx.state.frame_idx]
        added == [ctx EXCEPT !.labels.tracks = Append(@, new_track),
                             !.labels.tracks_made = @ + 1]
    IN  IF \E u \in numeric : ~ HasInt(u.name, limit)
        THEN raises(ctx, "ValueError")
        ELSE execute("SetSelectedInstanceTrack", added, [new_track |-> new_track.id], ans,
                     no_ask_and_do, ask_AppCommand, do_SetSelectedInstanceTrack).ctx

\* tracks a project of the model can hold
MaxTrackNumber == 4

\* the numbers the names of the tracks can reach: "03" and one more for
\* every track added
do_AddTrack(ctx, params, ans) == add_track(ctx, params, ans, 3 + MaxTrackNumber)

\* a callback handed to the player: the pending interactive selection
Register(ctx, kind, cmd, params) ==
    [ctx EXCEPT !.pending = <<[kind |-> kind, cmd |-> cmd, params |-> params]>>,
                !.log = Append(@, Ev("register", kind, <<>>, 0))]

\* DeleteAreaPredictions.ask_and_do
ask_and_do_DeleteAreaPredictions(ctx, params, ans) ==
    LET cmd == "DeleteAreaPredictions" IN
    Register(external(ctx, "updateStatusMessage"), "onAreaSelection", cmd, params)

\* delete_area_callback that takes only a rectangle without width as empty
delete_area_callback_any_height(cmd, ctx, params, x0, y0, x1, y1, ans) ==
    LET told == external(ctx, "updateStatusMessage")
    IN  IF x0 = x1 THEN told
        ELSE LET cornered == Put(Put(params, "min_corner", <<x0, y0>>),
                                 "max_corner", <<x1, y1>>)
                 predicted_instances_ == get_frame_instance_list(cmd, told, cornered)
                 confirmed == cls_confirm_deletion(cmd, predicted_instances_, ans)
                 asked == [told EXCEPT !.log = @ \o confirmed.shown]
             IN  IF confirmed.ret = "True"
                 THEN do_with_signal(cmd, asked,
                                     Put(cornered, "lf_instance_list", predicted_instances_),
                                     ans, do_InstanceDelete)
                 ELSE asked

\* delete_area_callback(x0, y0, x1, y1) of DeleteAreaPredictions.ask_and_do
delete_area_callback(cmd, ctx, params, x0, y0, x1, y1, ans) ==
    LET told == external(ctx, "updateStatusMessage")
    IN  IF x0 = x1 \/ y0 = y1 THEN told
        ELSE LET cornered == Put(Put(params, "min_corner", <<x0, y0>>),
                                 "max_corner", <<x1, y1>>)
                 predicted_instances_ == get_frame_instance_list(cmd, told, cornered)
                 confirmed == cls_confirm_deletion(cmd, predicted_instances_, ans)
                 asked == [told EXCEPT !.log = @ \o confirmed.shown]
             IN  IF confirmed.ret = "True"
                 THEN do_with_signal(cmd, asked,
                                     Put(cornered, "lf_instance_list", predicted_instances_),
                                     ans, do_InstanceDelete)
                 ELSE asked

\* TransposeInstances.ask_and_do
ask_and_do_TransposeInstances(ctx, params, ans) ==
    LET cmd == "TransposeInstances" IN
    LET instances == labeled_frame_instances(ctx)
    IN  IF ctx.state.video = None THEN raises(ctx, "AttributeError")
        ELSE IF Len(instances) < 2 THEN ctx
        ELSE IF Len(instances) = 2
             THEN do_with_signal(cmd, ctx,
                      Put(params, "instances", <<instances[1].id, instances[2].id>>), ans,
                      do_TransposeInstances)
             ELSE Register(ctx, "onSequenceSelect", cmd, params)

\* on_success(instances) of TransposeInstances.ask_and_do
on_success(cmd, ctx, params, instances, ans) ==
    do_with_signal(cmd, ctx, Put(params, "instances", instances), ans, do_TransposeInstances)

\* on_failure of TransposeInstances.ask_and_do
on_failure(cmd, ctx, params, ans) == external(ctx, "updateStatusMessage")

\* DeleteDialogCommand.ask_and_do; ans.okay is the result of the dialog
ask_and_do_DeleteDialogCommand(ctx, params, ans) ==
    LET cmd == "DeleteDialogCommand" IN
    LET shown == [ctx EXCEPT !.log = Append(@, Dialog("DeleteDialog", 0))]
    IN  IF ans.okay THEN signal_update(shown, <<"project_instances">>) ELSE shown

\* MergeProject.ask_and_do; ans.num files were chosen
\* for filename in filenames: the file is loaded and MergeDialog merges it
\* into context.labels
RECURSIVE merge_files(_, _)
merge_files(ctx, n) ==
    IF n = 0 THEN ctx ELSE merge_files(external(ctx, "MergeDialog"), n - 1)

\* ans.num: the number of files FileDialog.openMultiple answers with
ask_and_do_MergeProject(ctx, params, ans) ==
    LET cmd == "MergeProject" IN
    LET shown == [ctx EXCEPT !.log = Append(@, Dialog("FileDialog.openMultiple", 0))]
    IN  IF ans.num = 0 THEN shown
        ELSE do_with_signal(cmd, merge_files(shown, ans.num), params, ans, do_AppCommand)

\* the methods of the classes that read their own class (cls, type(self))
ask_DeleteAllPredictions(ctx, params, ans) ==
    ask_InstanceDelete("DeleteAllPredictions", ctx, params, ans)

ask_DeleteFramePredictions(ctx, params, ans) ==
    ask_InstanceDelete("DeleteFramePredictions", ctx, params, ans)

ask_DeleteClipPredictions(ctx, params, ans) ==
    ask_InstanceDelete("DeleteClipPredictions", ctx, params, ans)

ask_DeleteAreaPredictions(ctx, params, ans) ==
    ask_InstanceDelete("DeleteAreaPredictions", ctx, params, ans)

(***************************************************************************)
(* The state machine.  Every handler runs to completion on the one UI      *)
(* thread, so each is one action; what the user and the environment answer *)
(* (dialogs, files, random positions) is the record ans.                   *)
(***************************************************************************)
Ctx ==
    [labels |-> labels, state |-> state, change_stack |-> change_stack,
     update_callback |-> update_callback, pending |-> pending, log |-> <<>>]

\* the context after the handler
Becomes(ctx) ==
    /\ labels' = ctx.labels
    /\ state' = ctx.state
    /\ change_stack' = ctx.change_stack
    /\ pending' = ctx.pending
    /\ log' = ctx.log
    /\ UNCHANGED update_callback

\* context.execute(command, **params)
Run(cmd, params, ans, ask_and_do(_, _, _), ask(_, _, _), do_action(_, _, _)) ==
    /\ LET r == execute(cmd, Ctx, params, ans, ask_and_do, ask, do_action)
       IN  /\ Becomes(r.ctx)
           /\ last' = [op |-> "execute", cmd |-> cmd, ret |-> r.ret,
                       params |-> r.params, ans |-> ans]
    /\ nsteps' = nsteps + 1

\* the selection is an instance of the frame shown, or there is none
SelectionShown ==
    \/ state.instance = NoInst
    \/ state.instance \in {inst.id : inst \in Range(instances_at(labels, state.video,
                                                                   state.frame_idx))}

\* a command can still be executed in this session.  Commands are explored
\* from sessions whose selection is on the frame shown: what a command does
\* with an Instance that left the frame or the project is decided by Labels
\* and Instance, outside commands.py.
StepsLeft == nsteps < MaxSteps /\ SelectionShown

NoAnswer ==
    [filename |-> "", okay |-> FALSE, yes |-> FALSE, num |-> 0, raises |-> FALSE,
     missing |-> FALSE, xy |-> <<1, 1>>, template_nan |-> {}, replaced |-> {},
     skeleton |-> [nodes |-> <<>>, edges |-> {}, symmetries |-> {}],
     suggestions |-> <<>>]

NoParams == <<>>

Filenames == {"", "b.slp"}

FileAnswers == {[NoAnswer EXCEPT !.filename = f] : f \in Filenames}

YesNo == {[NoAnswer EXCEPT !.yes = b] : b \in BOOLEAN}

OkCancel == {[NoAnswer EXCEPT !.okay = b] : b \in BOOLEAN}

NodeNames == Range(state.skeleton.nodes)

ShownIds == {inst.id : inst \in Range(instances_at(labels, state.video, state.frame_idx))}

TrackIds == {t.id : t \in Range(labels.tracks)}

(***************************************************************************)
(* The project the sessions start from: two videos, two tracks and a       *)
(* two-node skeleton; the first video has predictions and user instances.  *)
(***************************************************************************)
Skeleton0 ==
    [nodes |-> <<"head", "tail">>, edges |-> {<<"head", "tail">>}, symmetries |-> {},
     id |-> "sk0"]

Inst(id, pred, score, track, from_predicted, x, y) ==
    [id |-> id, pred |-> pred, score |-> score, track |-> track,
     from_predicted |-> from_predicted, skeleton |-> "sk0",
     points |-> [n \in {"head", "tail"} |-> Point(x, y, TRUE)]]

LF(video, frame_idx, instances) ==
    [video |-> video, frame_idx |-> frame_idx, instances |-> instances]

Frames0 ==
    << LF("v1", 0, << Inst(1, TRUE, 3, "A", NoInst, 1, 1),
                      Inst(2, TRUE, 7, "B", NoInst, 5, 5),
                      Inst(3, FALSE, 0, None, 1, 1, 2) >>),
       LF("v1", 1, << Inst(4, TRUE, 5, "B", NoInst, 1, 1),
                      Inst(5, FALSE, 0, "A", NoInst, 5, 5) >>),
       LF("v2", 0, << Inst(6, TRUE, 2, "A", NoInst, 1, 1) >>) >>

Labels0 ==
    [videos |-> <<"v1", "v2">>, videos_made |-> 0, backend |-> {},
     skeletons |-> <<Skeleton0>>,
     labeled_frames |-> Frames0,
     tracks |-> << [id |-> "A", name |-> "1", spawned_on |-> 0],
                   [id |-> "B", name |-> "female", spawned_on |-> 0] >>,
     tracks_made |-> 0,
     suggestions |-> << <<"v1", 2>>, <<"v2", 0>> >>,
     video_frames |-> NumFrames,
     instances_made |-> 6]

NoLabels ==
    [videos |-> <<>>, videos_made |-> 0, backend |-> {}, skeletons |-> <<>>,
     labeled_frames |-> <<>>, tracks |-> <<>>,
     tracks_made |-> 0, suggestions |-> <<>>, video_frames |-> NumFrames,
     instances_made |-> 0]

State0 ==
    [video |-> "v1", frame_idx |-> 0, instance |-> NoInst,
     has_frame_range |-> FALSE, frame_range |-> <<0, 1>>,
     has_changes |-> FALSE, filename |-> None, skeleton |-> Skeleton0,
     selected_video |-> None, selected_node |-> "head",
     selected_edge |-> <<"head", "tail">>, suggestion_idx |-> 0]

NoLast == [op |-> "", cmd |-> "", ret |-> "", params |-> NoParams, ans |-> NoAnswer]

\* the sessions in progress: the first frame of the first video shown, or one
\* thing different: another frame, another video, an instance selected, a
\* clip selected on the seekbar, a project file, nothing loaded
SessionStates ==
    {State0}
    \cup {[State0 EXCEPT !.frame_idx = f] : f \in 1 .. NumFrames - 1}
    \cup {[State0 EXCEPT !.video = "v2"]}
    \cup {[State0 EXCEPT !.instance = i] : i \in 1 .. 3}
    \cup {[State0 EXCEPT !.frame_idx = 1, !.instance = 5]}
    \cup {[State0 EXCEPT !.has_frame_range = TRUE, !.frame_range = <<0, 2>>,
                         !.filename = "a.slp", !.selected_video = "v1"]}
    \cup {[State0 EXCEPT !.has_frame_range = TRUE, !.frame_range = <<0, 2>>]}

Init ==
    /\ change_stack \in {<<>>, <<"NewNode">>}
    /\ \/ /\ labels = Labels0
          /\ state \in {[s EXCEPT !.has_changes = change_stack # <<>>] : s \in SessionStates}
       \/ /\ labels = NoLabels
          /\ state = [State0 EXCEPT !.video = None, !.has_changes = change_stack # <<>>]
    /\ update_callback \in {"callable", None}
    /\ pending = <<>>
    /\ log = <<>>
    /\ last = NoLast
    /\ nsteps = 0

(***************************************************************************)
(* One action per command: the menu entry or shortcut calls                *)
(* context.execute(Command, ...) with the arguments of the caller and the  *)
(* answers of the user.                                                    *)
(***************************************************************************)
NewProject ==
    /\ StepsLeft
    /\ Run("NewProject", NoParams, NoAnswer,
               no_ask_and_do,
               ask_AppCommand,
               do_NewProject)

OpenProject ==
    /\ StepsLeft
    /\ \E a \in FileAnswers, first_open \in BOOLEAN :
           Run("OpenProject", [first_open |-> first_open], a,
               no_ask_and_do,
               ask_OpenProject,
               do_OpenProject)

ImportDeepPoseKit ==
    /\ StepsLeft
    /\ \E a \in FileAnswers, missing \in BOOLEAN, okay \in BOOLEAN :
           /\ a.filename = "" => ~ missing
           /\ ~ missing => ~ okay
           /\ Run("ImportDeepPoseKit", NoParams, [a EXCEPT !.missing = missing, !.okay = okay],
                  no_ask_and_do,
                  ask_ImportDeepPoseKit,
                  do_Import)

ImportCoco ==
    /\ StepsLeft
    /\ \E a \in FileAnswers : Run("ImportCoco", NoParams, a,
                                      no_ask_and_do,
                                      ask_Import,
                                      do_Import)

ImportDeepLabCut ==
    /\ StepsLeft
    /\ \E a \in FileAnswers : Run("ImportDeepLabCut", NoParams, a,
                                      no_ask_and_do,
                                      ask_Import,
                                      do_Import)

ImportLEAP ==
    /\ StepsLeft
    /\ \E a \in FileAnswers : Run("ImportLEAP", NoParams, a,
                                      no_ask_and_do,
                                      ask_Import,
                                      do_Import)

SaveAnswers == {[a EXCEPT !.raises = r] : a \in FileAnswers, r \in BOOLEAN}

SaveProject ==
    /\ StepsLeft
    /\ \E a \in SaveAnswers :
           /\ state.filename # None => a.filename = ""
           /\ state.filename = None /\ a.filename = "" => ~ a.raises
           /\ Run("SaveProject", NoParams, a,
                  no_ask_and_do,
                  ask_SaveProject,
                  do_SaveProjectAs)

SaveProjectAs ==
    /\ StepsLeft
    /\ \E a \in SaveAnswers :
           /\ a.filename = "" => ~ a.raises
           /\ Run("SaveProjectAs", NoParams, a,
                  no_ask_and_do,
                  ask_SaveProjectAs,
                  do_SaveProjectAs)

ExportAnalysisFile ==
    /\ StepsLeft
    /\ \E a \in FileAnswers : Run("ExportAnalysisFile", NoParams, a,
                                      no_ask_and_do,
                                      ask_ExportAnalysisFile,
                                      do_ExportAnalysisFile)

ExportLabeledClip ==
    /\ StepsLeft
    /\ \E a \in FileAnswers, okay \in BOOLEAN :
           /\ ~ okay => a.filename = ""
           /\ Run("ExportLabeledClip", NoParams, [a EXCEPT !.okay = okay],
                  no_ask_and_do,
                  ask_ExportLabeledClip,
                  do_ExportLabeledClip)

ExportLabeledFrames ==
    /\ StepsLeft
    /\ \E a \in FileAnswers : Run("ExportLabeledFrames", NoParams, a,
                                  no_ask_and_do,
                                  ask_ExportLabeledFrames,
                                  do_ExportLabeledFrames)

GoPreviousLabeledFrame ==
    /\ StepsLeft
    /\ Run("GoPreviousLabeledFrame", NoParams, NoAnswer,
               no_ask_and_do,
               ask_AppCommand,
               do_GoPreviousLabeledFrame)

GoNextLabeledFrame ==
    /\ StepsLeft
    /\ Run("GoNextLabeledFrame", NoParams, NoAnswer,
               no_ask_and_do,
               ask_AppCommand,
               do_GoNextLabeledFrame)

GoNextUserLabeledFrame ==
    /\ StepsLeft
    /\ Run("GoNextUserLabeledFrame", NoParams, NoAnswer,
               no_ask_and_do,
               ask_AppCommand,
               do_GoNextUserLabeledFrame)

\* labels.get_next_suggestion / get_prev_suggestion answer with a suggestion
\* of the project or with None
SuggestionAnswers == {[NoAnswer EXCEPT !.num = k] : k \in 0 .. Len(labels.suggestions)}

GoNextSuggestedFrame ==
    /\ StepsLeft
    /\ \E a \in SuggestionAnswers : Run("GoNextSuggestedFrame", NoParams, a,
                                            no_ask_and_do,
                                            ask_AppCommand,
                                            do_GoSuggestedFrame)

GoPrevSuggestedFrame ==
    /\ StepsLeft
    /\ \E a \in SuggestionAnswers : Run("GoPrevSuggestedFrame", NoParams, a,
                                            no_ask_and_do,
                                            ask_AppCommand,
                                            do_GoSuggestedFrame)

GoNextTrackFrame ==
    /\ StepsLeft
    /\ Run("GoNextTrackFrame", NoParams, NoAnswer,
               no_ask_and_do,
               ask_AppCommand,
               do_GoNextTrackFrame)

\* QInputDialog.getInt answers with a frame number and okay; a cancelled dialog
\* answers with any number, here the lowest
FrameNumberAnswers ==
    {[NoAnswer EXCEPT !.okay = TRUE, !.num = k] : k \in 1 .. labels.video_frames}
    \cup {[NoAnswer EXCEPT !.okay = FALSE, !.num = 1]}

GoFrameGui ==
    /\ StepsLeft
    /\ \E a \in FrameNumberAnswers : Run("GoFrameGui", NoParams, a,
                                         no_ask_and_do,
                                         ask_GoFrameGui,
                                         do_GoFrameGui)

SelectToFrameGui ==
    /\ StepsLeft
    /\ \E a \in FrameNumberAnswers : Run("SelectToFrameGui", NoParams, a,
                                         no_ask_and_do,
                                         ask_SelectToFrameGui,
                                         do_SelectToFrameGui)

\* CommandContext.gotoVideoAndFrame(video, frame_idx): NavCommand.go_to is
\* called directly, without execute
gotoVideoAndFrame ==
    /\ StepsLeft
    /\ \E video \in Range(labels.videos), frame_idx \in 0 .. labels.video_frames - 1 :
           /\ Becomes(go_to(Ctx, frame_idx, video))
           /\ last' = [op |-> "gotoVideoAndFrame", cmd |-> "", ret |-> "",
                       params |-> [video |-> video, frame_idx |-> frame_idx],
                       ans |-> NoAnswer]
    /\ nsteps' = nsteps + 1

MaxVideos == 3

MaxNodes == 6

MaxInstances == 7

\* the file dialog of AddVideo answers with ans.num videos
AddVideo ==
    /\ StepsLeft
    /\ \E k \in 0 .. 2 :
           /\ Len(labels.videos) + k <= MaxVideos
           /\ Run("AddVideo", NoParams, [NoAnswer EXCEPT !.num = k],
                  no_ask_and_do,
                  ask_AddVideo,
                  do_AddVideo)

\* the positions of the list at which the user gives another file
ReplaceVideo ==
    /\ StepsLeft
    /\ \E a \in OkCancel, replaced \in SUBSET (1 .. Len(labels.videos)) :
           /\ ~ a.okay => replaced = {}
           /\ Run("ReplaceVideo", NoParams, [a EXCEPT !.replaced = replaced],
                  no_ask_and_do,
                  ask_ReplaceVideo,
                  do_ReplaceVideo)

RemoveVideo ==
    /\ StepsLeft
    /\ \E a \in YesNo : Run("RemoveVideo", NoParams, a,
                                no_ask_and_do,
                                ask_RemoveVideo,
                                do_RemoveVideo)

Skeleton1 == [nodes |-> <<"nose">>, edges |-> {}, symmetries |-> {}]

\* the files a skeleton dialog answers with: none, a JSON file, HDF5 files
\* and a file of another kind
SkeletonFilenames == {"", "s.json", "s.h5", "s.hdf5", "b.slp"}

SkeletonFileAnswers == {[NoAnswer EXCEPT !.filename = f] : f \in SkeletonFilenames}

OpenSkeleton ==
    /\ StepsLeft
    /\ \E a \in SkeletonFileAnswers, sk \in {NoAnswer.skeleton, Skeleton1} :
           /\ a.filename \in {"", "b.slp"} => sk = NoAnswer.skeleton
           /\ Run("OpenSkeleton", NoParams, [a EXCEPT !.skeleton = sk],
                  no_ask_and_do,
                  ask_OpenSkeleton,
                  do_OpenSkeleton)

SaveSkeleton ==
    /\ StepsLeft
    /\ \E a \in SkeletonFileAnswers : Run("SaveSkeleton", NoParams, a,
                                      no_ask_and_do,
                                      ask_SaveSkeleton,
                                      do_SaveSkeleton)

NewNode ==
    /\ StepsLeft
    /\ Len(state.skeleton.nodes) < MaxNodes
    /\ Run("NewNode", NoParams, NoAnswer,
           no_ask_and_do,
           ask_AppCommand,
           do_NewNode)

DeleteNode ==
    /\ StepsLeft
    /\ state.selected_node \in NodeNames
    /\ Run("DeleteNode", NoParams, NoAnswer,
           no_ask_and_do,
           ask_AppCommand,
           do_DeleteNode)

SetNodeName ==
    /\ StepsLeft
    /\ \E node \in NodeNames, name \in {"nose"} \ NodeNames :
           Run("SetNodeName", [skeleton |-> "skeleton", node |-> node, name |-> name], NoAnswer,
               no_ask_and_do,
               ask_AppCommand,
               do_SetNodeName)

SetNodeSymmetry ==
    /\ StepsLeft
    /\ \E node \in NodeNames, symmetry \in NodeNames \cup {""} :
           /\ node = state.selected_node
           /\ symmetry # node
           /\ Run("SetNodeSymmetry",
                  [skeleton |-> "skeleton", node |-> node, symmetry |-> symmetry], NoAnswer,
                  no_ask_and_do,
                  ask_AppCommand,
                  do_SetNodeSymmetry)

NewEdge ==
    /\ StepsLeft
    /\ \E src_node \in NodeNames \cup {"ghost"}, dst_node \in NodeNames \cup {"ghost"} :
           Run("NewEdge", [src_node |-> src_node, dst_node |-> dst_node], NoAnswer,
               no_ask_and_do,
               ask_AppCommand,
               do_NewEdge)

DeleteEdge ==
    /\ StepsLeft
    /\ state.selected_edge \in state.skeleton.edges
    /\ Run("DeleteEdge", NoParams, NoAnswer,
           no_ask_and_do,
           ask_DeleteEdge,
           do_DeleteEdge)

DeleteAllPredictions ==
    /\ StepsLeft
    /\ \E a \in YesNo : Run("DeleteAllPredictions", NoParams, a,
                                no_ask_and_do,
                                ask_DeleteAllPredictions,
                                do_InstanceDelete)

DeleteFramePredictions ==
    /\ StepsLeft
    /\ \E a \in YesNo : Run("DeleteFramePredictions", NoParams, a,
                                no_ask_and_do,
                                ask_DeleteFramePredictions,
                                do_InstanceDelete)

DeleteClipPredictions ==
    /\ StepsLeft
    /\ \E a \in YesNo : Run("DeleteClipPredictions", NoParams, a,
                                no_ask_and_do,
                                ask_DeleteClipPredictions,
                                do_InstanceDelete)

DeleteAreaPredictions ==
    /\ StepsLeft
    /\ Run("DeleteAreaPredictions", NoParams, NoAnswer,
               ask_and_do_DeleteAreaPredictions,
               ask_DeleteAreaPredictions,
               do_InstanceDelete)

\* the score thresholds entered: the score of a prediction of the project,
\* and a value no prediction has
Thresholds == {5, 6}

DeleteLowScorePredictions ==
    /\ StepsLeft
    /\ \E a \in YesNo, okay \in BOOLEAN, t \in Thresholds :
           /\ ~ okay => ~ a.yes /\ t = 5
           /\ Run("DeleteLowScorePredictions", NoParams, [a EXCEPT !.okay = okay, !.num = t],
                  no_ask_and_do,
                  ask_DeleteLowScorePredictions,
                  do_InstanceDelete)

\* the cap entered: QInputDialog.getInt(..., 3, 1, 100) answers with 1 .. 100
MaxCap == 3

DeleteFrameLimitPredictions ==
    /\ StepsLeft
    /\ \E a \in YesNo, okay \in BOOLEAN, c \in 1 .. MaxCap :
           /\ ~ okay => ~ a.yes /\ c = 1
           /\ Run("DeleteFrameLimitPredictions", NoParams, [a EXCEPT !.okay = okay, !.num = c],
                  no_ask_and_do,
                  ask_DeleteFrameLimitPredictions,
                  do_InstanceDelete)

TransposeInstances ==
    /\ StepsLeft
    /\ Run("TransposeInstances", NoParams, NoAnswer,
           ask_and_do_TransposeInstances,
           ask_AppCommand,
           do_TransposeInstances)

DeleteSelectedInstance ==
    /\ StepsLeft
    /\ Run("DeleteSelectedInstance", NoParams, NoAnswer,
               no_ask_and_do,
               ask_AppCommand,
               do_DeleteSelectedInstance)

DeleteSelectedInstanceTrack ==
    /\ StepsLeft
    /\ Run("DeleteSelectedInstanceTrack", NoParams, NoAnswer,
               no_ask_and_do,
               ask_AppCommand,
               do_DeleteSelectedInstanceTrack)

DeleteDialogCommand ==
    /\ StepsLeft
    /\ \E a \in OkCancel : Run("DeleteDialogCommand", NoParams, a,
                                   ask_and_do_DeleteDialogCommand,
                                   ask_AppCommand,
                                   do_AppCommand)

AddTrack ==
    /\ StepsLeft
    /\ Len(labels.tracks) < MaxTrackNumber
    /\ Run("AddTrack", NoParams, NoAnswer,
           no_ask_and_do,
           ask_AppCommand,
           do_AddTrack)

SetSelectedInstanceTrack ==
    /\ StepsLeft
    /\ \E new_track \in TrackIds :
           Run("SetSelectedInstanceTrack", [new_track |-> new_track], NoAnswer,
               no_ask_and_do,
               ask_AppCommand,
               do_SetSelectedInstanceTrack)

SetTrackName ==
    /\ StepsLeft
    /\ \E track \in TrackIds, name \in {"2", "male"} :
           /\ track = labels.tracks[1].id
           /\ Run("SetTrackName", [track |-> track, name |-> name], NoAnswer,
                  no_ask_and_do,
                  ask_AppCommand,
                  do_SetTrackName)

GenerateSuggestions ==
    /\ StepsLeft
    /\ \E sg \in {<<>>, << <<"v1", 1>> >>} :
           /\ sg # <<>> => "v1" \in Range(labels.videos)
           /\ Run("GenerateSuggestions", [params |-> "params"], [NoAnswer EXCEPT !.suggestions = sg],
                  no_ask_and_do,
                  ask_AppCommand,
                  do_GenerateSuggestions)

\* files chosen in one dialog
MaxFiles == 3

MergeProject ==
    /\ StepsLeft
    /\ \E k \in 0 .. MaxFiles : Run("MergeProject", NoParams, [NoAnswer EXCEPT !.num = k],
                                 ask_and_do_MergeProject,
                                 ask_AppCommand,
                                 do_AppCommand)

InitMethods == {"best", "prediction", "prior_frame", "random", "template", "force_directed"}

PlacementAnswers ==
    {[NoAnswer EXCEPT !.xy = <<3, 3>>, !.template_nan = nan] : nan \in {{}, {"tail"}}}

AddInstance ==
    /\ StepsLeft
    /\ labels.instances_made < MaxInstances
    /\ \E copy_instance \in {NoInst} \cup {Max(ShownIds \cup {NoInst})},
          init_method \in InitMethods, a \in PlacementAnswers :
           /\ init_method \notin {"best", "template"} => a.template_nan = {}
           /\ Run("AddInstance", [copy_instance |-> copy_instance,
                                  init_method |-> init_method], a,
                  no_ask_and_do,
                  ask_AppCommand,
                  do_AddInstance)

\* the nodes a drag moves: one node, a node the instance does not have, or
\* all of them
MovedNodes == {{"head"}, {"ghost"}, {"head", "tail", "ghost"}}

SetInstancePointLocations ==
    /\ StepsLeft
    /\ \E instance \in ShownIds, nodes \in MovedNodes :
           /\ Run("SetInstancePointLocations",
                  [instance |-> instance,
                   nodes_locations |-> [n \in nodes |-> IF n = "head" THEN <<4, 4>> ELSE <<0, 7>>]],
                  NoAnswer,
                  no_ask_and_do,
                  ask_AppCommand,
                  do_SetInstancePointLocations)

SetInstancePointVisibility ==
    /\ StepsLeft
    /\ \E instance \in ShownIds, visible \in BOOLEAN :
           /\ \E node \in DOMAIN InstById(labels, instance).points :
                  /\ Run("SetInstancePointVisibility",
                         [instance |-> instance, node |-> node, visible |-> visible], NoAnswer,
                         no_ask_and_do,
                         ask_AppCommand,
                         do_SetInstancePointVisibility)

\* the template has a location for every node, for every node but tail, or
\* only for head
FillAnswers ==
    PlacementAnswers \cup {[NoAnswer EXCEPT !.xy = <<3, 3>>, !.template_nan = {"tail", "neck"}]}

AddMissingInstanceNodes ==
    /\ StepsLeft
    /\ \E instance \in ShownIds, a \in FillAnswers, visible \in BOOLEAN :
           /\ Run("AddMissingInstanceNodes", [instance |-> instance, visible |-> visible], a,
                  no_ask_and_do,
                  ask_AppCommand,
                  do_AddMissingInstanceNodes)

(***************************************************************************)
(* The callbacks the player calls back, and what the user does between     *)
(* commands.                                                               *)
(***************************************************************************)
Called(op, cmd, params, ans) ==
    last' = [op |-> op, cmd |-> cmd, ret |-> "", params |-> params, ans |-> ans]

\* the user drags a rectangle: delete_area_callback(x0, y0, x1, y1)
Rectangles == {<<0, 0, 2, 3>>, <<0, 0, 0, 3>>, <<0, 2, 3, 2>>}

AreaSelected ==
    /\ pending # <<>>
    /\ pending[1].kind = "onAreaSelection"
    /\ \E r \in Rectangles, a \in YesNo :
           /\ r[1] = r[3] \/ r[2] = r[4] => ~ a.yes
           /\ Becomes(delete_area_callback(pending[1].cmd, [Ctx EXCEPT !.pending = <<>>],
                                           pending[1].params, r[1], r[2], r[3], r[4], a))
           /\ Called("delete_area_callback", pending[1].cmd, [r |-> r], a)
    /\ UNCHANGED nsteps

\* the user clicks two instances of the frame shown: on_success(instances)
SequenceSelected ==
    /\ pending # <<>>
    /\ pending[1].kind = "onSequenceSelect"
    /\ \E i \in ShownIds, j \in ShownIds :
           /\ i < j
           /\ Becomes(on_success(pending[1].cmd, [Ctx EXCEPT !.pending = <<>>],
                                 pending[1].params, <<i, j>>, NoAnswer))
           /\ Called("on_success", pending[1].cmd, [instances |-> <<i, j>>], NoAnswer)
    /\ UNCHANGED nsteps

\* the user gives up the selection: on_failure
SequenceCancelled ==
    /\ pending # <<>>
    /\ pending[1].kind = "onSequenceSelect"
    /\ Becomes(on_failure(pending[1].cmd, [Ctx EXCEPT !.pending = <<>>],
                          pending[1].params, NoAnswer))
    /\ Called("on_failure", pending[1].cmd, NoParams, NoAnswer)
    /\ UNCHANGED nsteps

\* CommandContext.changestack_clear, which the application calls when a
\* project is loaded; on an empty stack with has_changes False the call
\* changes nothing and is no step
ChangestackClear ==
    /\ ~ (change_stack = <<>> /\ ~ state.has_changes)
    /\ Becomes(changestack_clear(Ctx))
    /\ Called("changestack_clear", "", NoParams, NoAnswer)
    /\ UNCHANGED nsteps

\* the changes the application pushes: the default argument and a
\* description of what was done
Changes == {"", "new predictions"}

\* CommandContext.changestack_push(change), called by the application
ChangestackPush ==
    /\ StepsLeft
    /\ \E change \in Changes :
           /\ Becomes(changestack_push(Ctx, change))
           /\ Called("changestack_push", "", [change |-> change], NoAnswer)
    /\ nsteps' = nsteps + 1

\* CommandContext.changestack_savepoint(), called by the application
ChangestackSavepoint ==
    /\ StepsLeft
    /\ Becomes(changestack_savepoint(Ctx))
    /\ Called("changestack_savepoint", "", NoParams, NoAnswer)
    /\ nsteps' = nsteps + 1

\* the topic lists the application broadcasts
TopicLists == {<<"all">>, <<"frame", "project_instances">>}

\* CommandContext.signal_update(what), called by the application
SignalUpdate ==
    /\ StepsLeft
    /\ \E what \in TopicLists :
           /\ Becomes(signal_update(Ctx, what))
           /\ Called("signal_update", "", [what |-> what], NoAnswer)
    /\ nsteps' = nsteps + 1

\* CommandContext.updateEdges(): self.signal_update([UpdateTopic.skeleton])
updateEdges ==
    /\ StepsLeft
    /\ Becomes(signal_update(Ctx, <<"skeleton">>))
    /\ Called("updateEdges", "", NoParams, NoAnswer)
    /\ nsteps' = nsteps + 1

Next ==
    \/ NewProject
    \/ OpenProject
    \/ ImportDeepPoseKit
    \/ ImportCoco
    \/ ImportDeepLabCut
    \/ ImportLEAP
    \/ SaveProject
    \/ SaveProjectAs
    \/ ExportAnalysisFile
    \/ ExportLabeledClip
    \/ ExportLabeledFrames
    \/ GoPreviousLabeledFrame
    \/ GoNextLabeledFrame
    \/ GoNextUserLabeledFrame
    \/ GoNextSuggestedFrame
    \/ GoPrevSuggestedFrame
    \/ GoNextTrackFrame
    \/ GoFrameGui
    \/ SelectToFrameGui
    \/ gotoVideoAndFrame
    \/ AddVideo
    \/ ReplaceVideo
    \/ RemoveVideo
    \/ OpenSkeleton
    \/ SaveSkeleton
    \/ NewNode
    \/ DeleteNode
    \/ SetNodeName
    \/ SetNodeSymmetry
    \/ NewEdge
    \/ DeleteEdge
    \/ DeleteAllPredictions
    \/ DeleteFramePredictions
    \/ DeleteClipPredictions
    \/ DeleteAreaPredictions
    \/ DeleteLowScorePredictions
    \/ DeleteFrameLimitPredictions
    \/ TransposeInstances
    \/ DeleteSelectedInstance
    \/ DeleteSelectedInstanceTrack
    \/ DeleteDialogCommand
    \/ AddTrack
    \/ SetSelectedInstanceTrack
    \/ SetTrackName
    \/ GenerateSuggestions
    \/ MergeProject
    \/ AddInstance
    \/ SetInstancePointLocations
    \/ SetInstancePointVisibility
    \/ AddMissingInstanceNodes
    \/ AreaSelected
    \/ SequenceSelected
    \/ SequenceCancelled
    \/ ChangestackClear
    \/ ChangestackPush
    \/ ChangestackSavepoint
    \/ SignalUpdate
    \/ updateEdges

Spec == Init /\ [][Next]_vars

(***************************************************************************)
(* Properties.  A step that executes a command is one that counts in       *)
(* nsteps; last' then names the command, what ask returned and the         *)
(* answers, and log' holds what the handler did, in order.                 *)
(***************************************************************************)
Executes == nsteps' = nsteps + 1 /\ last'.op = "execute"

EventsOf(l, e) == SelectSeq(l, LAMBDA x : x.ev = e)

SaveCommands == {"SaveProject", "SaveProjectAs"}

\* C1 (as the specification states it): executing a command whose does_edits
\* is False, SaveProject and SaveProjectAs included, leaves the change stack
\* as it was, whatever the answers and the outcome.
C1_NonEditingNeverAppends ==
    [][Executes /\ ~ does_edits(last'.cmd) => change_stack' = change_stack]_vars

\* C1 (corrected): executing a command whose does_edits is False leaves the
\* change stack as it was, except that SaveProject and SaveProjectAs append
\* exactly the one entry "SAVE" when the file was written, and nothing when
\* the save was cancelled or failed.
C1_NonEditingAppendsOnlySavepoint ==
    [][Executes /\ ~ does_edits(last'.cmd) =>
          IF last'.cmd \in SaveCommands /\ last'.ret = "True" /\ ~ last'.ans.raises
          THEN change_stack' = Append(change_stack, "SAVE")
          ELSE change_stack' = change_stack]_vars

\* a save went through on a stack that held an entry, and marked it
C1_SavepointReached ==
    /\ last.op = "execute"
    /\ last.cmd = "SaveProjectAs"
    /\ last.ret = "True"
    /\ change_stack = <<"NewNode", "SAVE">>
    /\ ~ state.has_changes

\* C2: when a command without ask_and_do is executed and its ask returns a
\* false value (False, or the None of a cancelled numeric prompt),
\* do_action is not called, Labels is as before, the update callback is not
\* called, and the change stack and has_changes are as before.
C2_AskFalseChangesNothing ==
    [][Executes /\ ~ has_ask_and_do(last'.cmd) /\ last'.ret # "True" =>
          /\ EventsOf(log', "do_action") = <<>>
          /\ labels' = labels
          /\ EventsOf(log', "signal_update") = <<>>
          /\ EventsOf(log', "update_callback") = <<>>
          /\ change_stack' = change_stack
          /\ state'.has_changes = state.has_changes]_vars

\* the score prompt of DeleteLowScorePredictions was cancelled (ask returned
\* None) in a project with predictions and a context with a callback
C2_CancelledPromptReached ==
    /\ last.op = "execute"
    /\ last.cmd = "DeleteLowScorePredictions"
    /\ last.ret = "None"
    /\ update_callback = "callable"
    /\ \E inst \in AllInstances(labels) : inst.pred
    /\ EventsOf(log, "dialog") # <<>>

\* what a call of do_with_signal logs after do_action has returned, in a
\* context whose callback is cb
AfterAction(cmd, cb) ==
    (IF topics(cmd) # <<>>
     THEN <<Ev("signal_update", "", topics(cmd), 0)>>
          \o (IF cb = "callable" THEN <<Ev("update_callback", "", topics(cmd), 0)>> ELSE <<>>)
     ELSE <<>>)
    \o (IF does_edits(cmd) THEN <<Ev("changestack_push", cmd, <<>>, 0)>> ELSE <<>>)

\* the log l has, right after the return of do_action at position k, exactly
\* the events expected, and then either ends or goes on with the return of
\* the do_action the call was made from
FollowedBy(l, k, expected) ==
    /\ k + Len(expected) <= Len(l)
    /\ SubSeq(l, k + 1, k + Len(expected)) = expected
    /\ k + Len(expected) < Len(l) => l[k + Len(expected) + 1].ev = "do_action_return"

\* every call of do_action in l returned, unless an exception ended the
\* handler, and every return was followed by expected
DoWithSignalOrder(l, cb) ==
    /\ \/ Len(EventsOf(l, "do_action")) = Len(EventsOf(l, "do_action_return"))
       \/ l[Len(l)].ev = "raise" /\ EventsOf(l, "do_action_return") = <<>>
    /\ \A k \in 1 .. Len(l) :
           l[k].ev = "do_action_return" => FollowedBy(l, k, AfterAction(l[k].name, cb))

\* the handler that ended with a call of do_with_signal left the name of the
\* command on top of the stack, and has_changes set, if the command edits
PushedLast(l, stack, st) ==
    l # <<>> /\ l[Len(l)].ev = "changestack_push" /\ EventsOf(l, "do_action_return") # <<>>
        => /\ stack # <<>>
           /\ stack[Len(stack)] = l[Len(l)].name
           /\ st.has_changes

\* C3 (as the specification states it): every call of do_with_signal calls
\* do_action once, then the update callback once with the topics iff the
\* topics are not empty, then pushes the class name iff does_edits.
C3_CallbackAlwaysCalled ==
    DoWithSignalOrder(log, "callable") /\ PushedLast(log, change_stack, state)

\* C3 (corrected): every call of do_with_signal calls do_action once, then
\* signal_update once with the topics iff the topics are not empty, which
\* calls the update callback iff the context has a callable one, then pushes
\* the class name iff does_edits; an exception raised by do_action ends the
\* call before the broadcast and the push.
C3_DoWithSignalOrder ==
    DoWithSignalOrder(log, update_callback) /\ PushedLast(log, change_stack, state)

\* NewNode ran in a context with a callback: do_action, the callback with
\* the topic skeleton, the push of "NewNode", in this order
C3_OrderReached ==
    /\ update_callback = "callable"
    /\ log = << Ev("do_action", "NewNode", <<>>, 0),
                Ev("do_action_return", "NewNode", <<>>, 0),
                Ev("signal_update", "", <<"skeleton">>, 0),
                Ev("update_callback", "", <<"skeleton">>, 0),
                Ev("changestack_push", "NewNode", <<>>, 0) >>
    /\ change_stack[Len(change_stack)] = "NewNode"

\* the positions of the events e in the log l
PositionsOf(l, e) == {k \in 1 .. Len(l) : l[k].ev = e}

\* a step in which a prediction-deletion command ran its do_action: from
\* execute, or from the area callback
DeletionRan ==
    /\ last'.cmd \in InstanceDeleteCommands
    /\ Executes \/ last'.op = "delete_area_callback"
    /\ EventsOf(log', "do_action") # <<>>

\* C4: a confirmed prediction-deletion command that deletes k >= 1 pairs
\* removes each pair with the cache maintenance deferred, rebuilds the cache
\* exactly once, after all removals, and makes the change stack grow by
\* exactly one entry.
C4_OneEntryPerBatch ==
    [][DeletionRan /\ EventsOf(log', "remove_instance") # <<>> =>
          /\ \A k \in PositionsOf(log', "remove_instance") : log'[k].name = "in_transaction"
          /\ Cardinality(PositionsOf(log', "update_cache")) = 1
          /\ \A k \in PositionsOf(log', "remove_instance"),
                m \in PositionsOf(log', "update_cache") : k < m
          /\ Len(change_stack') = Len(change_stack) + 1]_vars

\* the variants that confirm with InstanceDeleteCommand._confirm_deletion
DefaultConfirmed == InstanceDeleteCommands \ {"DeleteFramePredictions"}

\* the yes/no prompts of the log l
Prompts(l) == SelectSeq(l, LAMBDA x : x.ev = "dialog" /\ x.name = "QMessageBox.critical")

\* C5: for the deletion variants with the default confirmation, the yes/no
\* prompt with the candidate count is shown when the count is not zero and
\* is not shown when the candidate list is empty; when the user answers No,
\* no instance is removed, no topic is broadcast and nothing is pushed.
C5_PromptIffCandidates ==
    [][/\ last'.cmd \in DefaultConfirmed
       /\ Executes \/ last'.op = "delete_area_callback"
       => /\ \A k \in 1 .. Len(Prompts(log')) : Prompts(log')[k].n # 0
          /\ "lf_instance_list" \in DOMAIN last'.params
                 /\ last'.params.lf_instance_list # <<>> => Prompts(log') # <<>>
          /\ Prompts(log') # <<>> /\ ~ last'.ans.yes =>
                 /\ labels' = labels
                 /\ EventsOf(log', "signal_update") = <<>>
                 /\ change_stack' = change_stack]_vars

(***************************************************************************)
(* The per-frame cap on its own: sessions on projects whose first frame    *)
(* holds predictions of any scores (ties included), in which the cap       *)
(* command is executed.                                                    *)
(***************************************************************************)
MaxPreds == 3

Scores == {1, 2, 3}

\* scores 0.9, 0.1, 0.5, 0.7, 0.3, in tenths
ExampleScores == <<9, 1, 5, 7, 3>>

ScoreLists ==
    {ExampleScores} \cup UNION {[1 .. n -> Scores] : n \in 0 .. MaxPreds}

\* a frame of predictions with the scores given, a user instance among them
ScoredFrame(video, frame_idx, first_id, scores) ==
    LF(video, frame_idx,
       [k \in 1 .. Len(scores) |-> Inst(first_id + k, TRUE, scores[k], None, NoInst, k, k)]
       \o <<Inst(first_id, FALSE, 0, None, NoInst, 0, 0)>>)

CapLabels(scores) ==
    [Labels0 EXCEPT
        !.labeled_frames = << ScoredFrame("v1", 0, 10, scores),
                              ScoredFrame("v1", 1, 20, <<5, 2, 5, 2>>),
                              ScoredFrame("v2", 0, 30, <<4, 4, 4, 4>>) >>,
        !.instances_made = 40]

InitCap ==
    /\ \E scores \in ScoreLists : labels = CapLabels(scores)
    /\ state = State0
    /\ change_stack = <<>>
    /\ update_callback = "callable"
    /\ pending = <<>>
    /\ log = <<>>
    /\ last = NoLast
    /\ nsteps = 0

NextCap == DeleteFrameLimitPredictions

SpecCap == InitCap /\ [][NextCap]_vars

\* the instances of labeled frame i that the list of pairs names
ListedIn(lf_inst_list, i) == {p[2] : p \in {q \in Range(lf_inst_list) : q[1] = i}}

\* what C6 says of the candidate list for the cap c in the project L with
\* current video v
CapList(L, v, c, lf_inst_list) ==
    /\ Cardinality(Range(lf_inst_list)) = Len(lf_inst_list)
    /\ \A i \in 1 .. Len(LFS(L)) :
           LET lf == LFS(L)[i]
               preds == Range(predicted_instances(lf))
               listed == {inst \in Range(lf.instances) : inst.id \in ListedIn(lf_inst_list, i)}
           IN  /\ Cardinality(listed) = Cardinality(ListedIn(lf_inst_list, i))
               /\ IF lf.video = v
                  THEN /\ Cardinality(listed) = Max({0, Cardinality(preds) - c})
                       /\ listed \subseteq preds
                       /\ \A a \in listed, b \in preds \ listed : a.score <= b.score
                  ELSE listed = {}

\* C6: the candidate list of DeleteFrameLimitPredictions with cap c holds,
\* for every labeled frame of the current video with n predictions, exactly
\* max(0, n - c) predictions of the frame, none scoring higher than a
\* prediction of the frame that is not listed, and nothing else; after the
\* deletion each frame keeps its min(n, c) highest-scoring predictions and
\* all its other instances.
C6_CapKeepsHighest ==
    [][Executes /\ last'.cmd = "DeleteFrameLimitPredictions"
          /\ "lf_instance_list" \in DOMAIN last'.params =>
          LET c == last'.params.count_threshold
              lf_inst_list == last'.params.lf_instance_list
          IN  /\ c \in 1 .. 100
              /\ CapList(labels, state.video, c, lf_inst_list)
              /\ last'.ret = "True" =>
                     \A i \in 1 .. Len(LFS(labels)) :
                         LFS(labels')[i].instances =
                             SelectSeq(LFS(labels)[i].instances,
                                       LAMBDA inst : inst.id \notin ListedIn(lf_inst_list, i))]_vars

\* the frame with scores 0.9, 0.1, 0.5, 0.7, 0.3 was capped at 3: the
\* predictions scoring 0.1 and 0.3 were listed and deleted, the others kept
C6_ExampleReached ==
    /\ last.cmd = "DeleteFrameLimitPredictions"
    /\ last.ret = "True"
    /\ last.params.count_threshold = 3
    /\ SelectSeq(last.params.lf_instance_list, LAMBDA p : p[1] = 1) = << <<1, 12>>, <<1, 15>> >>
    /\ [k \in 1 .. 4 |-> LFS(labels)[1].instances[k].score] = <<9, 5, 7, 0>>

(***************************************************************************)
(* The skeleton editor on its own: sessions on skeletons whose node names  *)
(* are any of the names NewNode probes and one other, in which nodes are   *)
(* added, deleted and renamed.                                             *)
(***************************************************************************)
MaxProbe == 3

\* new_part, new_part_1, new_part_2, ...
ProbeName(j) == IF j = 0 THEN "new_part" ELSE "new_part_" \o ToString(j)

NamePool == <<"head">> \o [j \in 1 .. MaxProbe + 1 |-> ProbeName(j - 1)]

InitNode ==
    /\ labels = Labels0
    /\ \E S \in SUBSET Range(NamePool) :
           \E selected \in S \cup {"head"} :
               state = [State0 EXCEPT
                           !.skeleton = [nodes |-> SelectSeq(NamePool, LAMBDA n : n \in S),
                                         edges |-> {}, symmetries |-> {},
                                         id |-> "sk0"],
                           !.selected_node = selected]
    /\ change_stack = <<>>
    /\ update_callback = "callable"
    /\ pending = <<>>
    /\ log = <<>>
    /\ last = NoLast
    /\ nsteps = 0

NextNode ==
    \/ NewNode
    \/ DeleteNode
    \/ SetNodeName

SpecNode == InitNode /\ [][NextNode]_vars

\* C7: NewNode ends and adds exactly one node, named by the first of
\* new_part, new_part_1, new_part_2, ... that no node of the skeleton has
\* (found within as many probes as the skeleton has nodes, plus one); the
\* nodes there were are kept.
C7_FirstFreeName ==
    [][Executes /\ last'.cmd = "NewNode" =>
          LET old == state.skeleton.nodes
              new == state'.skeleton.nodes
          IN  /\ Len(new) = Len(old) + 1
              /\ SubSeq(new, 1, Len(old)) = old
              /\ new[Len(new)] \notin Range(old)
              /\ \E j \in 0 .. Len(old) :
                     /\ new[Len(new)] = ProbeName(j)
                     /\ \A m \in 0 .. j - 1 : ProbeName(m) \in Range(old)
              /\ state'.skeleton.edges = state.skeleton.edges]_vars

\* a skeleton with the nodes new_part and new_part_1 got new_part_2
C7_SecondSuffixReached ==
    /\ last.cmd = "NewNode"
    /\ state.skeleton.nodes = <<"new_part", "new_part_1", "new_part_2">>

(***************************************************************************)
(* Navigation between tracks on its own: sessions on a video of            *)
(* NavFrames frames in which each of three tracks is absent or starts at   *)
(* frame 3, 7 or 10 and is seen again in the last labeled frame.           *)
(***************************************************************************)
NavFrames == 11

NavTracks == <<"T1", "T2", "T3">>

NavStarts == <<3, 7, 10>>

\* the predicted instance of track number t on labeled frame number f
NavInst(t, f) == Inst(10 * t + f, TRUE, 5, NavTracks[t], NoInst, t, f)

\* the instances of labeled frame number f when track number t starts on
\* labeled frame number starts[t] (0: the track is not in the video); hide says whether the prediction that starts track T1 is shown
\* ("no": a user instance of the same track, or of no track, was made from it)
NavInstances(starts, hide, f) ==
    LET here == SelectSeq(<<1, 2, 3>>,
                          LAMBDA t : starts[t] # 0
                                     /\ (starts[t] = f \/ f = Len(NavStarts)))
        preds == [k \in 1 .. Len(here) |-> NavInst(here[k], f)]
    IN  IF hide # "shown" /\ starts[1] = f
        THEN preds \o <<Inst(100, FALSE, 0, IF hide = "same" THEN "T1" ELSE None,
                             10 + f, 1, f)>>
        ELSE preds

NavLabels(starts, hide) ==
    [Labels0 EXCEPT
        !.videos = <<"v1">>,
        !.labeled_frames =
            SelectSeq([f \in 1 .. Len(NavStarts) |->
                          LF("v1", NavStarts[f], NavInstances(starts, hide, f))],
                      LAMBDA lf : lf.instances # <<>>),
        !.tracks = [t \in 1 .. 3 |-> [id |-> NavTracks[t], name |-> NavTracks[t],
                                       spawned_on |-> 0]],
        !.suggestions = <<>>,
        !.video_frames = NavFrames,
        !.instances_made = 100]

InitNav ==
    /\ \E starts \in [1 .. 3 -> 0 .. Len(NavStarts)],
          hide \in {"shown", "same", "other"} :
           labels = NavLabels(starts, hide)
    /\ \E f \in 0 .. NavFrames - 1 :
           \E i \in {NoInst} \cup {inst.id : inst \in Range(instances_at(labels, "v1", f))} :
               state = [State0 EXCEPT !.frame_idx = f, !.instance = i]
    /\ change_stack = <<>>
    /\ update_callback = "callable"
    /\ pending = <<>>
    /\ log = <<>>
    /\ last = NoLast
    /\ nsteps = 0

NextNav ==
    \/ GoNextTrackFrame
    \/ GoNextLabeledFrame
    \/ GoPreviousLabeledFrame

SpecNav == InitNav /\ [][NextNav]_vars

\* the tracks that instances of the video have
TracksSeen(L, v) ==
    {inst.track : inst \in UNION {Range(LFS(L)[i].instances) : i \in Range(find(L, v))}}
        \ {None}

\* the first frame of the video with an instance of the track
StartOf(L, v, track) ==
    Min({LFS(L)[i].frame_idx : i \in {j \in Range(find(L, v)) :
             \E inst \in Range(LFS(L)[j].instances) : inst.track = track}})

\* the instances shown on the frame that belong to the track, in order
ShownOfTrack(L, v, f, track) ==
    SelectSeq(instances_to_show([instances |-> instances_at(L, v, f)]),
              LAMBDA inst : inst.track = track)

\* C8: GoNextTrackFrame at frame i goes to the least start of a track of the
\* video that is greater than i and selects the first instance shown there
\* of the track chosen (a track with that start), if it has one; when no
\* track starts after i, a track starting at i included, the frame and the
\* selection stay as they are.
C8_NextTrackStart ==
    [][Executes /\ last'.cmd = "GoNextTrackFrame" =>
          LET v == state.video
              later == {t \in TracksSeen(labels, v) : StartOf(labels, v, t) > state.frame_idx}
              next_idx == Min({StartOf(labels, v, t) : t \in later})
          IN  /\ state'.video = v
              /\ labels' = labels
              /\ IF later # {}
                 THEN /\ state'.frame_idx = next_idx
                      /\ \E t \in later :
                             /\ StartOf(labels, v, t) = next_idx
                             /\ ShownOfTrack(labels, v, next_idx, t) # <<>> =>
                                    state'.instance = ShownOfTrack(labels, v, next_idx, t)[1].id
                 ELSE /\ state'.frame_idx = state.frame_idx
                      /\ state'.instance = state.instance]_vars

\* tracks start at frames 3, 10 and 7, the frame shown was 5: frame 7 is
\* shown and the instance of the track that starts there is selected
C8_ExampleReached ==
    /\ last.cmd = "GoNextTrackFrame"
    /\ {StartOf(labels, "v1", t) : t \in TracksSeen(labels, "v1")} = {3, 7, 10}
    /\ StartOf(labels, "v1", "T1") = 3 /\ StartOf(labels, "v1", "T2") = 10
    /\ state.frame_idx = 7
    /\ state.instance = 32
    /\ TrackOf(labels, state.instance) = "T3"


(***************************************************************************)
(* Track reassignment: a video of TrackFrames labeled frames whose         *)
(* instances are in the tracks A, B, C or in none, a second video with     *)
(* instances in A and B, every frame shown, every instance of the frame    *)
(* shown (or none) selected, with and without a clip selected on the       *)
(* seekbar.                                                                *)
(***************************************************************************)
TrackFrames == 3

\* the tracks of the instances of one labeled frame, in list order
Layouts ==
    {<<"A", "B">>, <<None, "A", "A">>, <<None, "B">>, <<"C", "A">>}

\* the instance at position k of labeled frame number f (frame index f - 1)
TrackInst(f, k, track) == Inst(10 * f + k, FALSE, 0, track, NoInst, k, f)

TrackLabels(layout) ==
    [Labels0 EXCEPT
        !.labeled_frames =
            [f \in 1 .. TrackFrames |->
                LF("v1", f - 1, [k \in 1 .. Len(layout[f]) |-> TrackInst(f, k, layout[f][k])])]
            \o << LF("v2", 1, << TrackInst(9, 1, "A"), TrackInst(9, 2, "B") >>) >>,
        !.tracks = << [id |-> "A", name |-> "1", spawned_on |-> 0],
                      [id |-> "B", name |-> "female", spawned_on |-> 0],
                      [id |-> "C", name |-> "2", spawned_on |-> 0] >>,
        !.suggestions = <<>>,
        !.video_frames = TrackFrames,
        !.instances_made = 100]

\* the clips that can be selected on the seekbar: <<first frame, end>>
Clips == {<<0, 2>>, <<1, 2>>, <<1, TrackFrames>>}

InitTrack ==
    /\ \E layout \in [1 .. TrackFrames -> Layouts] : labels = TrackLabels(layout)
    /\ \E f \in 0 .. TrackFrames - 1 :
           \E i \in {NoInst} \cup {inst.id : inst \in Range(instances_at(labels, "v1", f))} :
               \/ state = [State0 EXCEPT !.frame_idx = f, !.instance = i]
               \/ \E clip \in Clips :
                      state = [State0 EXCEPT !.frame_idx = f, !.instance = i,
                                             !.has_frame_range = TRUE,
                                             !.frame_range = clip]
    /\ change_stack = <<>>
    /\ update_callback = "callable"
    /\ pending = <<>>
    /\ log = <<>>
    /\ last = NoLast
    /\ nsteps = 0

NextTrack ==
    \/ SetSelectedInstanceTrack
    \/ AddTrack

SpecTrack == InitTrack /\ [][NextTrack]_vars

\* ids of the instances of the labeled frames of a video at a frame index
IdsAt(L, video, frame_idx) ==
    {inst.id : inst \in UNION {Range(lf.instances) :
                 lf \in {x \in Range(LFS(L)) : x.video = video /\ x.frame_idx = frame_idx}}}

\* the ids of the instances of every labeled frame, frame by frame
Membership(L) ==
    [i \in 1 .. Len(LFS(L)) |->
        [k \in 1 .. Len(LFS(L)[i].instances) |-> LFS(L)[i].instances[k].id]]

\* the tracks of the instances of the frame of a video at a frame index
TracksAt(L, video, frame_idx) ==
    LET insts == instances_at(L, video, frame_idx)
    IN  [k \in 1 .. Len(insts) |-> insts[k].track]

SetsTrack ==
    /\ Executes
    /\ last'.cmd = "SetSelectedInstanceTrack"
    /\ state.instance # NoInst

\* C9: SetSelectedInstanceTrack with a selected instance I that has no track,
\* track T and current frame F: every other instance that was in T at F has
\* no track afterwards and is still in its frame, I is in T at F, the track
\* of every instance on another frame is unchanged, and exactly one instance
\* at F is in T.
C9_UntrackedTakesTrack ==
    [][SetsTrack /\ TrackOf(labels, state.instance) = None =>
          LET I == state.instance
              T == last'.params.new_track
              atF == IdsAt(labels, state.video, state.frame_idx)
              atF_after == IdsAt(labels', state'.video, state'.frame_idx)
          IN  /\ state'.video = state.video /\ state'.frame_idx = state.frame_idx
              /\ \A id \in atF \ {I} :
                     TrackOf(labels, id) = T =>
                         id \in atF_after /\ TrackOf(labels', id) = None
              /\ Membership(labels') = Membership(labels)
              /\ I \in atF_after /\ TrackOf(labels', I) = T
              /\ \A id \in InstanceIds(labels) \ atF :
                     TrackOf(labels', id) = TrackOf(labels, id)
              /\ Cardinality({id \in atF_after : TrackOf(labels', id) = T}) = 1]_vars

\* the untracked instance 21 of frame 1 was put in track A: the two
\* instances that were in A there have no track and are still in the frame
C9_EvictionReached ==
    /\ last.cmd = "SetSelectedInstanceTrack"
    /\ last.params.new_track = "A"
    /\ state.frame_idx = 1 /\ state.instance = 21
    /\ Membership(labels)[2] = <<21, 22, 23>>
    /\ TracksAt(labels, "v1", 1) = <<"A", None, None>>

\* the first and last frame of the range of a reassignment of a tracked
\* instance: the clip selected on the seekbar, or the current frame to the
\* end of the video
AffectedRange(L, s) ==
    IF s.has_frame_range THEN s.frame_range ELSE <<s.frame_idx, L.video_frames>>

InsideRange(L, s) ==
    UNION {IdsAt(L, s.video, f) :
              f \in PyRange(AffectedRange(L, s)[1], AffectedRange(L, s)[2])}

\* C10: SetSelectedInstanceTrack with a selected instance in track A and new
\* track B, over the clip selected on the seekbar if has_frame_range is set
\* and from the current frame to the frame count of the video otherwise:
\* every instance of the current video that was in A inside the range is in
\* B, every one that was in B inside it is in A, and the track of every
\* instance outside the range is unchanged.
C10_TrackedSwapsRange ==
    [][SetsTrack /\ TrackOf(labels, state.instance) # None =>
          LET A == TrackOf(labels, state.instance)
              B == last'.params.new_track
              inside == InsideRange(labels, state)
          IN  /\ \A id \in inside :
                     /\ TrackOf(labels, id) = A => TrackOf(labels', id) = B
                     /\ TrackOf(labels, id) = B => TrackOf(labels', id) = A
              /\ \A id \in InstanceIds(labels) \ inside :
                     TrackOf(labels', id) = TrackOf(labels, id)
              /\ Membership(labels') = Membership(labels)]_vars

\* with the clip <<1, 2>> selected, the instance 21 of frame 1 went from A to
\* B: the tracks A and B are swapped on frame 1 and are as they were on
\* frames 0 and 2 and in the other video
C10_ClipSwapReached ==
    /\ last.cmd = "SetSelectedInstanceTrack"
    /\ last.params.new_track = "B"
    /\ state.has_frame_range /\ state.frame_range = <<1, 2>>
    /\ state.frame_idx = 1 /\ state.instance = 21
    /\ TracksAt(labels, "v1", 0) = <<"A", "B">>
    /\ TracksAt(labels, "v1", 1) = <<"B", "A">>
    /\ TracksAt(labels, "v1", 2) = <<"A", "B">>
    /\ TracksAt(labels, "v2", 1) = <<"A", "B">>


\* the precondition of the command is not met in the current state
PreconditionUnmet(cmd) ==
    CASE cmd \in {"DeleteSelectedInstance", "DeleteSelectedInstanceTrack",
                  "SetSelectedInstanceTrack"} -> state.instance = NoInst
      [] cmd = "RemoveVideo" -> state.selected_video = None
      [] cmd = "TransposeInstances" ->
             Len(instances_at(labels, state.video, state.frame_idx)) < 2
      [] OTHER -> FALSE

\* C11: executing DeleteSelectedInstance, DeleteSelectedInstanceTrack or
\* SetSelectedInstanceTrack while no instance is selected, RemoveVideo while
\* no video is selected, or TransposeInstances on a frame with fewer than two
\* instances leaves the project model unchanged, broadcasts no update topic
\* and leaves the change stack and has_changes unchanged.
C11_UnmetPreconditionNoEffect ==
    [][Executes /\ PreconditionUnmet(last'.cmd) =>
          /\ labels' = labels
          /\ EventsOf(log', "signal_update") = <<>>
          /\ change_stack' = change_stack
          /\ state'.has_changes = state.has_changes]_vars


IsPrefix(s, t) == Len(s) <= Len(t) /\ SubSeq(t, 1, Len(s)) = s

\* C12: the change stack is append-only under command execution: across the
\* execution of any command, and across the callbacks a command registered,
\* the stack before is a prefix of the stack after, so that over a sequence
\* of commands no entry is removed, replaced or reordered; the only step
\* that empties a stack that held entries is changestack_clear.
C12_ChangeStackAppendOnly ==
    [][/\ last'.op # "changestack_clear" => IsPrefix(change_stack, change_stack')
       /\ change_stack # <<>> /\ change_stack' = <<>> => last'.op = "changestack_clear"]_vars

\* a command was executed on a stack that held "NewNode" and appended its
\* own entries behind it
C12_AppendedReached ==
    /\ last.op = "execute"
    /\ last.cmd = "AddVideo"
    /\ Len(change_stack) >= 3
    /\ change_stack[1] = "NewNode"
    /\ change_stack[Len(change_stack)] = "AddVideo"


\* ids of the instances of type PredictedInstance in a set of instance ids
PredictedIn(L, ids) == {id \in ids : InstById(L, id).pred}

\* the instances with the given ids, whatever frame they are in
InstancesOf(L, ids) == {inst \in AllInstances(L) : inst.id \in ids}

\* the ids of the instances of the pairs of a candidate list
ListedIds(lf_inst_list) == {lf_inst_list[k][2] : k \in 1 .. Len(lf_inst_list)}

\* C13: DeleteFramePredictions shows no confirmation prompt, and its
\* candidate list is exactly the instances of type PredictedInstance of the
\* labeled frame of the current video at the current frame index: these are
\* removed, and every user instance and every instance of another frame or
\* another video stays as it was.
C13_FramePredictionsOnly ==
    [][Executes /\ last'.cmd = "DeleteFramePredictions" =>
          LET here == IdsAt(labels, state.video, state.frame_idx)
              listed == ListedIds(last'.params.lf_instance_list)
          IN  /\ EventsOf(log', "dialog") = <<>>
              /\ last'.ret = "True"
              /\ listed = PredictedIn(labels, here)
              /\ \A k \in 1 .. Len(last'.params.lf_instance_list) :
                     /\ LFS(labels)[last'.params.lf_instance_list[k][1]].video = state.video
                     /\ LFS(labels)[last'.params.lf_instance_list[k][1]].frame_idx = state.frame_idx
              /\ InstanceIds(labels') = InstanceIds(labels) \ listed
              /\ AllInstances(labels') = InstancesOf(labels, InstanceIds(labels) \ listed)]_vars

\* on frame 0 of the first video the predictions 1 and 2 are gone; the user
\* instance 3 and the predictions 4 and 6 of the other frame and the other
\* video are still there, and no dialog was shown
C13_FrameClearedReached ==
    /\ last.cmd = "DeleteFramePredictions"
    /\ state.video = "v1" /\ state.frame_idx = 0
    /\ InstanceIds(labels) = {3, 4, 5, 6}
    /\ IdsAt(labels, "v1", 0) = {3}
    /\ EventsOf(log, "dialog") = <<>>


\* C14: DeleteLowScorePredictions with threshold t lists the pair (frame,
\* instance) exactly when the frame is a labeled frame of the current video
\* and the instance is a PredictedInstance in it with a score less than t;
\* a prediction whose score is t and every instance that is not a
\* prediction is not listed and is still in the project after the deletion.
C14_LowScoreStrictlyBelow ==
    [][Executes /\ last'.cmd = "DeleteLowScorePredictions" /\ last'.ans.okay =>
          LET t == last'.params.score_threshold
              lf_inst_list == last'.params.lf_instance_list
              low == {p \in (1 .. Len(LFS(labels))) \X InstanceIds(labels) :
                         /\ LFS(labels)[p[1]].video = state.video
                         /\ \E inst \in Range(LFS(labels)[p[1]].instances) :
                                inst.id = p[2] /\ inst.pred /\ inst.score < t}
          IN  /\ t = last'.ans.num
              /\ Range(lf_inst_list) = low
              /\ Len(lf_inst_list) = Cardinality(low)
              /\ \A inst \in AllInstances(labels) :
                     ~ inst.pred \/ inst.score >= t => inst \in AllInstances(labels')
              /\ last'.ret = "True" =>
                     AllInstances(labels') =
                         InstancesOf(labels, InstanceIds(labels) \ ListedIds(lf_inst_list))
              /\ last'.ret # "True" => labels' = labels]_vars

\* with threshold 5 on the first video the prediction of score 3 is gone;
\* the prediction 4, whose score is 5, the one of score 7, the user
\* instances and the prediction of score 2 of the other video are there
C14_EqualScoreKeptReached ==
    /\ last.cmd = "DeleteLowScorePredictions"
    /\ last.ret = "True"
    /\ last.params.score_threshold = 5
    /\ state.video = "v1"
    /\ InstanceIds(labels) = {2, 3, 4, 5, 6}
    /\ InstById(labels, 4).pred /\ InstById(labels, 4).score = 5


(***************************************************************************)
(* Track names: projects of two or three tracks with every choice of names *)
(* from TrackNames, the first frames of the first video shown, nothing or  *)
(* an instance of the frame selected.                                      *)
(***************************************************************************)
TrackNames == {"1", "2", "03", "female", "U+00B2"}

NamedTracks(names) ==
    [k \in 1 .. Len(names) |->
        [id |-> <<"A", "B", "C">>[k], name |-> names[k], spawned_on |-> 0]]

InitName ==
    /\ \E n \in 2 .. 3 : \E names \in [1 .. n -> TrackNames] :
           labels = [Labels0 EXCEPT !.tracks = NamedTracks(names)]
    /\ \E f \in 0 .. 1 :
           \E i \in {NoInst} \cup {inst.id : inst \in Range(instances_at(labels, "v1", f))} :
               state = [State0 EXCEPT !.frame_idx = f, !.instance = i]
    /\ change_stack = <<>>
    /\ update_callback = "callable"
    /\ pending = <<>>
    /\ log = <<>>
    /\ last = NoLast
    /\ nsteps = 0

NextName ==
    \/ AddTrack
    \/ SetTrackName

SpecName == InitName /\ [][NextName]_vars

\* the tracks whose name is purely numeric
NumericTracks(L) == {t \in Range(L.tracks) : IsNumeric(t.name, 3 + MaxTrackNumber)}

\* the integer values of the numeric names that have one
TrackNumbers(L) ==
    {IntOf(t.name, 3 + MaxTrackNumber) :
        t \in {u \in NumericTracks(L) : HasInt(u.name, 3 + MaxTrackNumber)}}

\* C15: AddTrack adds one track, named str(m + 1) for the greatest integer
\* value m of the purely numeric names of the tracks there were (0 when no
\* name is numeric; the other names are ignored), spawned on the current
\* frame; its name is the name of no numeric track there was, and the
\* selected instance, if there is one, is put in it by
\* SetSelectedInstanceTrack.
C15_NextNumericName ==
    [][Executes /\ last'.cmd = "AddTrack" =>
          LET m == Max(TrackNumbers(labels) \cup {0})
              n == Len(labels.tracks)
          IN  /\ Len(labels'.tracks) = n + 1
              /\ SubSeq(labels'.tracks, 1, n) = labels.tracks
              /\ labels'.tracks[n + 1].name = ToString(m + 1)
              /\ labels'.tracks[n + 1].spawned_on = state.frame_idx
              /\ \A t \in NumericTracks(labels) : t.name # labels'.tracks[n + 1].name
              /\ <<"AddTrack", "SetSelectedInstanceTrack">> =
                     [k \in 1 .. Len(EventsOf(log', "do_action")) |->
                         EventsOf(log', "do_action")[k].name]
              /\ state.instance # NoInst =>
                     TrackOf(labels', state.instance) = labels'.tracks[n + 1].id]_vars


(***************************************************************************)
(* Transposition: projects like those of the track reassignment, with      *)
(* frames of one, two and three instances, with and without a clip         *)
(* selected.                                                               *)
(***************************************************************************)
TransposeLayouts ==
    {<<"B">>, <<"A", "B">>, <<None, "B">>, <<"A", "B", "C">>}

InitTranspose ==
    /\ \E layout \in [1 .. TrackFrames -> TransposeLayouts] : labels = TrackLabels(layout)
    /\ \E f \in 0 .. TrackFrames - 1 :
           \/ state = [State0 EXCEPT !.frame_idx = f]
           \/ state = [State0 EXCEPT !.frame_idx = f, !.has_frame_range = TRUE,
                                     !.frame_range = <<0, 2>>]
    /\ change_stack = <<>>
    /\ update_callback = "callable"
    /\ pending = <<>>
    /\ log = <<>>
    /\ last = NoLast
    /\ nsteps = 0

NextTranspose ==
    \/ TransposeInstances
    \/ SequenceSelected
    \/ SequenceCancelled

SpecTranspose == InitTranspose /\ [][NextTranspose]_vars

\* the project after the tracks a and b have changed places on the frames of
\* the video from frame index first to the last frame
Transposed(L, video, first, a, b) ==
    [L EXCEPT !.labeled_frames =
        [i \in 1 .. Len(@) |->
            IF @[i].video = video /\ @[i].frame_idx >= first /\ @[i].frame_idx < L.video_frames
            THEN [@[i] EXCEPT !.instances =
                     [k \in 1 .. Len(@) |->
                         IF @[k].track = a THEN [@[k] EXCEPT !.track = b]
                         ELSE IF @[k].track = b THEN [@[k] EXCEPT !.track = a]
                         ELSE @[k]]]
            ELSE @[i]]]

\* do_with_signal ran once, on the instances i and j: the tracks are swapped
\* if both have one, then the topics are broadcast and the change is pushed
TransposedWithSignal(i, j) ==
    /\ Len(EventsOf(log', "do_action")) = 1
    /\ labels' = IF TrackOf(labels, i) # None /\ TrackOf(labels, j) # None
                 THEN Transposed(labels, state.video, state.frame_idx,
                                 TrackOf(labels, i), TrackOf(labels, j))
                 ELSE labels
    /\ Len(EventsOf(log', "signal_update")) = 1
    /\ change_stack' = Append(change_stack, "TransposeInstances")
    /\ EventsOf(log', "register") = <<>>

\* nothing was changed, broadcast or pushed
NothingDone ==
    /\ EventsOf(log', "do_action") = <<>>
    /\ labels' = labels
    /\ EventsOf(log', "signal_update") = <<>>
    /\ change_stack' = change_stack
    /\ state'.has_changes = state.has_changes

\* C16: TransposeInstances on a frame of n instances: n < 2 runs neither
\* do_with_signal nor a selection; n = 2 runs do_with_signal at once on the
\* two instances; n > 2 registers a selection of two instances and changes,
\* broadcasts and pushes nothing until on_success is called with the two
\* chosen; on_failure does none of it.  do_action swaps the two tracks from
\* the current frame to the frame count of the video, whatever clip is
\* selected, and only when both instances have a track.
C16_TransposeDispatch ==
    [][LET insts == instances_at(labels, state.video, state.frame_idx)
           n == Len(insts)
       IN  /\ Executes /\ last'.cmd = "TransposeInstances" =>
                 /\ n < 2 => NothingDone /\ EventsOf(log', "register") = <<>>
                                         /\ pending' = pending
                 /\ n = 2 => TransposedWithSignal(insts[1].id, insts[2].id)
                             /\ pending' = pending
                 /\ n > 2 => /\ NothingDone
                             /\ Len(EventsOf(log', "register")) = 1
                             /\ pending' # <<>> /\ pending'[1].kind = "onSequenceSelect"
           /\ last'.op = "on_success" =>
                 TransposedWithSignal(last'.params.instances[1], last'.params.instances[2])
           /\ last'.op = "on_failure" => NothingDone]_vars

\* on frame 1, which holds three instances, the instances 21 and 23 were
\* chosen: the tracks A and C have changed places on frames 1 and 2 and not
\* on frame 0, although the clip <<0, 2>> is selected
C16_ChosenSwappedReached ==
    /\ last.op = "on_success"
    /\ last.params.instances = <<21, 23>>
    /\ state.frame_idx = 1 /\ state.has_frame_range
    /\ TracksAt(labels, "v1", 0) = <<"A", "B", "C">>
    /\ TracksAt(labels, "v1", 1) = <<"C", "B", "A">>
    /\ TracksAt(labels, "v1", 2) = <<"C", "B">>
    /\ change_stack = <<"TransposeInstances">>
    /\ pending = <<>>


(***************************************************************************)
(* Point edits: the project of the sessions with one point of one instance *)
(* of the first video as it is, hidden, or not placed (NaN), frame 0 or 1  *)
(* shown, with and without an update callback.                             *)
(***************************************************************************)
WithPoint(L, id, node, point) ==
    UpdateInst(L, id, LAMBDA inst : [inst EXCEPT !.points[node] = point])

InitPoint ==
    /\ \E id \in 1 .. 5, node \in {"head", "tail"} :
           \/ labels = Labels0
           \/ labels = WithPoint(Labels0, id, node, Point(2, 2, FALSE))
           \/ labels = WithPoint(Labels0, id, node, NanPoint(FALSE))
    /\ \E f \in 0 .. 1 : state = [State0 EXCEPT !.frame_idx = f]
    /\ change_stack = <<>>
    /\ update_callback \in {"callable", None}
    /\ pending = <<>>
    /\ log = <<>>
    /\ last = NoLast
    /\ nsteps = 0

NextPoint ==
    \/ SetInstancePointLocations
    \/ SetInstancePointVisibility

SpecPoint == InitPoint /\ [][NextPoint]_vars

\* C17: executing SetInstancePointLocations or SetInstancePointVisibility
\* broadcasts nothing and never calls the update callback; 
\* SetInstancePointLocations gives the x and y of nodes_locations to the
\* nodes that are in the instance, skips the others, and leaves the
\* visibility of every point and every other instance as they were.
C17_PointEditsAreSilent ==
    [][Executes /\ last'.cmd \in {"SetInstancePointLocations", "SetInstancePointVisibility"} =>
          /\ EventsOf(log', "signal_update") = <<>>
          /\ EventsOf(log', "update_callback") = <<>>
          /\ last'.cmd = "SetInstancePointLocations" =>
                 LET p == last'.params
                     before == InstById(labels, p.instance)
                     after == InstById(labels', p.instance)
                 IN  /\ Membership(labels') = Membership(labels)
                     /\ \A inst \in AllInstances(labels) :
                            inst.id # p.instance => inst \in AllInstances(labels')
                     /\ after = [before EXCEPT !.points = after.points]
                     /\ DOMAIN after.points = DOMAIN before.points
                     /\ \A n \in DOMAIN before.points :
                            /\ after.points[n].visible = before.points[n].visible
                            /\ IF n \in DOMAIN p.nodes_locations /\ in_instance(n, before)
                               THEN /\ after.points[n].x = p.nodes_locations[n][1]
                                    /\ after.points[n].y = p.nodes_locations[n][2]
                               ELSE after.points[n] = before.points[n]]_vars

\* head, tail and a node the skeleton does not have were dragged on the user
\* instance 3, whose tail was not placed: the head is at <<4, 4>>, the tail
\* is still not placed, and the callback of the context was not called
C17_MovedReached ==
    /\ last.cmd = "SetInstancePointLocations"
    /\ last.params.instance = 3
    /\ DOMAIN last.params.nodes_locations = {"head", "tail", "ghost"}
    /\ update_callback = "callable"
    /\ InstById(labels, 3).points["head"] = Point(4, 4, TRUE)
    /\ InstById(labels, 3).points["tail"] = NanPoint(FALSE)
    /\ EventsOf(log, "update_callback") = <<>>
    /\ change_stack = <<"SetInstancePointLocations">>


\* positions in the log of the calls of the given external function
CallsOf(l, what) == {k \in 1 .. Len(l) : l[k] = Ev("external", what, <<>>, 0)}

\* C18: when SaveProject or SaveProjectAs attempts a save and the save call
\* raises, the exception does not leave the command, an error dialog is
\* shown, no SAVE savepoint is pushed, and has_changes and the filename of
\* the state keep their values; when the save succeeds a SAVE savepoint is
\* pushed, has_changes becomes False and the filename of the state becomes
\* the saved filename.  In both outcomes plotFrame is requested exactly
\* once, after the save attempt.
C18_SaveOutcomes ==
    [][Executes /\ last'.cmd \in SaveCommands /\ CallsOf(log', "save_file") # {} =>
          /\ EventsOf(log', "raise") = <<>>
          /\ Cardinality(CallsOf(log', "save_file")) = 1
          /\ Cardinality(CallsOf(log', "plotFrame")) = 1
          /\ \A s \in CallsOf(log', "save_file"), p \in CallsOf(log', "plotFrame") : s < p
          /\ labels' = labels
          /\ IF last'.ans.raises
             THEN /\ Len(SelectSeq(log', LAMBDA x : x = Dialog("QMessageBox", 0))) = 1
                  /\ change_stack' = change_stack
                  /\ state' = state
             ELSE /\ EventsOf(log', "dialog")
                         = IF last'.cmd = "SaveProject" /\ state.filename # None
                           THEN <<>> ELSE <<Dialog("FileDialog.save", 0)>>
                  /\ change_stack' = Append(change_stack, "SAVE")
                  /\ state' = [state EXCEPT
                                  !.has_changes = FALSE,
                                  !.filename = IF last'.cmd = "SaveProject" /\ state.filename # None
                                               THEN state.filename ELSE last'.ans.filename]]_vars

\* SaveProject of a project with unsaved changes and a file: the save call
\* raised, the error dialog and then plotFrame followed, and the changes are
\* still unsaved
C18_FailedSaveReached ==
    /\ last.cmd = "SaveProject"
    /\ last.ans.raises
    /\ state.filename = "a.slp"
    /\ state.has_changes
    /\ change_stack = <<"NewNode">>
    /\ log = <<Ev("do_action", "SaveProject", <<>>, 0),
               Ev("external", "save_file", <<>>, 0),
               Dialog("QMessageBox", 0),
               Ev("external", "plotFrame", <<>>, 0),
               Ev("do_action_return", "SaveProject", <<>>, 0)>>


\* nothing of the project, the history or the session changed in the step,
\* and nothing was asked, removed or broadcast
OnlyStatusMessage ==
    /\ labels' = labels
    /\ change_stack' = change_stack
    /\ state' = state
    /\ \A k \in 1 .. Len(log') : log'[k].ev \in {"external", "register"}
    /\ CallsOf(log', "updateStatusMessage") # {}

\* C19: executing DeleteAreaPredictions only registers an area-selection
\* callback: the project is not changed, nothing is broadcast and nothing is
\* pushed.  When the callback fires with a rectangle without width or
\* without height, nothing is asked, removed, broadcast or pushed; when it
\* fires with any other rectangle and the user confirms, do_with_signal runs
\* exactly once.
C19_AreaDeletionDeferred ==
    [][/\ Executes /\ last'.cmd = "DeleteAreaPredictions" =>
              /\ OnlyStatusMessage
              /\ pending' = <<[kind |-> "onAreaSelection", cmd |-> "DeleteAreaPredictions",
                               params |-> last'.params]>>
              /\ Len(EventsOf(log', "register")) = 1
       /\ last'.op = "delete_area_callback" =>
              LET r == last'.params.r
              IN  IF r[1] = r[3] \/ r[2] = r[4]
                  THEN OnlyStatusMessage /\ EventsOf(log', "register") = <<>>
                  ELSE /\ Len(EventsOf(log', "dialog")) = 1
                       /\ last'.ans.yes =>
                              /\ Len(EventsOf(log', "do_action")) = 1
                              /\ Len(EventsOf(log', "do_action_return")) = 1
                              /\ Len(EventsOf(log', "signal_update")) = 1
                              /\ Len(SelectSeq(log', LAMBDA x : x.ev = "changestack_push"
                                                        /\ x.name = last'.cmd)) = 1
                       /\ ~ last'.ans.yes => labels' = labels /\ change_stack' = change_stack
      ]_vars

\* the callback registered by DeleteAreaPredictions fired with a rectangle
\* without height: only the status message was reset
C19_FlatRectangleReached ==
    /\ last.op = "delete_area_callback"
    /\ last.cmd = "DeleteAreaPredictions"
    /\ last.params.r = <<0, 2, 3, 2>>
    /\ log = <<Ev("external", "updateStatusMessage", <<>>, 0)>>
    /\ pending = <<>>
    /\ labels = Labels0
    /\ change_stack = <<>>


(***************************************************************************)
(* Deletion of a track: the projects of the track reassignment, every      *)
(* frame shown and every instance of it (or none) selected.                *)
(***************************************************************************)
InitDeleteTrack ==
    /\ \E layout \in [1 .. TrackFrames -> Layouts] : labels = TrackLabels(layout)
    /\ \E f \in 0 .. TrackFrames - 1 :
           \E i \in {NoInst} \cup {inst.id : inst \in Range(instances_at(labels, "v1", f))} :
               state = [State0 EXCEPT !.frame_idx = f, !.instance = i]
    /\ change_stack = <<>>
    /\ update_callback = "callable"
    /\ pending = <<>>
    /\ log = <<>>
    /\ last = NoLast
    /\ nsteps = 0

NextDeleteTrack ==
    \/ DeleteSelectedInstanceTrack
    \/ DeleteSelectedInstance

SpecDeleteTrack == InitDeleteTrack /\ [][NextDeleteTrack]_vars

\* ids of the instances of a video that are in the track
IdsInTrack(L, video, track) ==
    {inst.id : inst \in {x \in UNION {Range(lf.instances) :
                                lf \in {y \in Range(LFS(L)) : y.video = video}} :
                            x.track = track}}

\* C20: after DeleteSelectedInstanceTrack with a selected instance whose
\* track is T (not None), the selected instance and every instance of the
\* current video that is in T are removed, also when a frame holds several
\* instances of T, and no other instance is removed; when the selected
\* instance has no track, only the selected instance is removed.
C20_WholeTrackDeleted ==
    [][Executes /\ last'.cmd = "DeleteSelectedInstanceTrack" /\ state.instance # NoInst =>
          LET I == state.instance
              T == TrackOf(labels, I)
              gone == IF T = None THEN {I} ELSE {I} \cup IdsInTrack(labels, state.video, T)
          IN  /\ InstanceIds(labels') = InstanceIds(labels) \ gone
              /\ AllInstances(labels') \subseteq AllInstances(labels)
              /\ T # None => IdsInTrack(labels', state.video, T) = {}]_vars


(***************************************************************************)
(* Instance creation: a video of AddFrames frames, each without a labeled  *)
(* frame or with a labeled frame of user instances, predictions and        *)
(* instances made from predictions; every frame shown, every instance of   *)
(* it (or none) selected.                                                  *)
(***************************************************************************)
AddFrames == 3

\* what a labeled frame holds, in list order; <<>>: the frame is not labeled
AddLayouts ==
    {<<>>, <<"user">>, <<"pred", "user">>, <<"pred", "made", "user">>}

\* the instance at position k of frame number f: a prediction, a user
\* instance, or a user instance made from the prediction before it.  The
\* first of a frame is in track A, the second in B, the third in none.
AddInst(f, k, layout) ==
    [Inst(10 * f + k, layout[k] = "pred", IF layout[k] = "pred" THEN 5 ELSE 0,
          IF k = 1 THEN "A" ELSE IF k = 2 THEN "B" ELSE None,
          IF layout[k] = "made" THEN 10 * f + k - 1 ELSE NoInst,
          k, 10 + f)
     EXCEPT !.points["tail"].visible = (k # 1)]

AddLabels(layouts) ==
    [Labels0 EXCEPT
        !.labeled_frames =
            SelectSeq([f \in 1 .. AddFrames |->
                          LF("v1", f - 1, [k \in 1 .. Len(layouts[f]) |-> AddInst(f, k, layouts[f])])],
                      LAMBDA lf : lf.instances # <<>>),
        !.suggestions = <<>>,
        !.video_frames = AddFrames,
        !.instances_made = 0]

InitAdd ==
    /\ \E layouts \in [1 .. AddFrames -> AddLayouts] : labels = AddLabels(layouts)
    /\ \E f \in 0 .. AddFrames - 1 :
           \E i \in {NoInst} \cup {inst.id : inst \in Range(instances_at(labels, "v1", f))} :
               state = [State0 EXCEPT !.frame_idx = f, !.instance = i]
    /\ change_stack = <<>>
    /\ update_callback = "callable"
    /\ pending = <<>>
    /\ log = <<>>
    /\ last = NoLast
    /\ nsteps = 0

NextAdd == AddInstance

SpecAdd == InitAdd /\ [][NextAdd]_vars

\* AddInstance is executed with init_method 'best' and no copy_instance
AddsBest ==
    /\ Executes
    /\ last'.cmd = "AddInstance"
    /\ last'.params.init_method = "best"
    /\ last'.params.copy_instance = NoInst

\* the instances of the frame shown and of the nearest labeled frame before it
CurrentFrame == instances_at(labels, state.video, state.frame_idx)

HasPreviousFrame ==
    \E lf \in Range(LFS(labels)) : lf.video = state.video /\ lf.frame_idx < state.frame_idx

PreviousFrame ==
    IF ~ HasPreviousFrame THEN <<>>
    ELSE instances_at(labels, state.video,
             Max({lf.frame_idx : lf \in {x \in Range(LFS(labels)) :
                      x.video = state.video /\ x.frame_idx < state.frame_idx}}))

UnusedOfCurrent ==
    SelectSeq(CurrentFrame,
              LAMBDA inst : inst.pred /\ \A o \in Range(CurrentFrame) : o.from_predicted # inst.id)

\* rule (c) of the copy source; without is what is taken when there is no
\* previous labeled frame
FromPrevious(without) ==
    LET P == PreviousFrame
        C == CurrentFrame
    IN  IF ~ HasPreviousFrame THEN without
        ELSE IF Len(P) > Len(C) THEN P[Len(C) + 1].id
        ELSE IF Len(C) > 0 THEN C[Len(C)].id
        ELSE IF Len(P) > 0 THEN P[Len(P)].id ELSE NoInst

BySourcePriority(without) ==
    IF state.instance # NoInst THEN state.instance
    ELSE IF UnusedOfCurrent # <<>> THEN UnusedOfCurrent[1].id
    ELSE FromPrevious(without)

\* the instance the step added: the last of the frame shown
NewInstance ==
    LET after == instances_at(labels', state.video, state.frame_idx)
    IN  after[Len(after)]

\* the new instance has the points the source has, and the nodes the source
\* has no point for (all of them when there is no source) are placed where
\* the answers of the placement say
CopiedFrom(source) ==
    /\ Len(instances_at(labels', state.video, state.frame_idx)) = Len(CurrentFrame) + 1
    /\ \A n \in NodeNames :
           IF source # NoInst /\ in_instance(n, InstById(labels, source))
           THEN NewInstance.points[n] = InstById(labels, source).points[n]
           ELSE /\ NewInstance.points[n].x = last'.ans.xy[1]
                /\ NewInstance.points[n].y = last'.ans.xy[2]

\* C21 (as the specification states it): AddInstance with init_method 'best'
\* and no copy source given copies the selected instance, else the first
\* unused prediction of the current frame, else by rule (c), and the last
\* instance of the current frame whenever the current frame has instances
\* and the first case of rule (c) does not apply.
C21_LastOfCurrentWhenever ==
    [][AddsBest =>
          CopiedFrom(BySourcePriority(IF Len(CurrentFrame) > 0
                                      THEN CurrentFrame[Len(CurrentFrame)].id
                                      ELSE NoInst))]_vars

\* C21: AddInstance with init_method 'best' and no copy source given copies
\* the selected instance, else the first unused prediction of the current
\* frame, else, when there is a previous labeled frame P, P's instance at
\* index |C| if |P| > |C|, else the last instance of the current frame C if
\* it has instances, else the last instance of P; when there is no previous
\* labeled frame, rule (c) gives no copy source.
C21_SourceByPriority ==
    [][AddsBest => CopiedFrom(BySourcePriority(NoInst))]_vars

\* frame 1 holds one user instance and the frame before it three, nothing is
\* selected and no prediction is unused: the new instance is a copy of the
\* second instance of the previous frame
C21_UnmatchedCopiedReached ==
    /\ last.cmd = "AddInstance"
    /\ last.params = [copy_instance |-> NoInst, init_method |-> "best"]
    /\ state.frame_idx = 1
    /\ state.instance = NoInst
    /\ Len(instances_at(labels, "v1", 0)) = 3
    /\ Len(instances_at(labels, "v1", 1)) = 2
    /\ ~ instances_at(labels, "v1", 1)[1].pred
    /\ instances_at(labels, "v1", 1)[2].id = 1
    /\ instances_at(labels, "v1", 1)[2].points = instances_at(labels, "v1", 0)[2].points


\* the instance AddInstance copies with the params of the step, NoInst when
\* it copies none
SourceOfStep == copy_source(Ctx, last'.params).copy_instance

\* C22: the instance created by AddInstance has the track of its copy source
\* if the copy source is a predicted instance or was taken from the previous
\* labeled frame; with no copy source, or a copy source of the current frame
\* that is not a prediction, the new instance has no track.
C22_TrackInherited ==
    [][Executes /\ last'.cmd = "AddInstance" =>
          /\ Len(instances_at(labels', state.video, state.frame_idx)) = Len(CurrentFrame) + 1
          /\ NewInstance.id \notin InstanceIds(labels)
          /\ NewInstance.track =
                 IF /\ SourceOfStep # NoInst
                    /\ \/ InstById(labels, SourceOfStep).pred
                       \/ SourceOfStep \notin {inst.id : inst \in Range(CurrentFrame)}
                 THEN InstById(labels, SourceOfStep).track
                 ELSE None]_vars

\* on frame 1, which holds a user instance of track A, the second instance
\* of the frame before was copied: the new instance is in track B, and the
\* user instance of track A is still the only other instance of the frame
C22_PreviousTrackTakenReached ==
    /\ last.cmd = "AddInstance"
    /\ last.params.init_method = "prior_frame"
    /\ state.frame_idx = 1
    /\ Len(instances_at(labels, "v1", 0)) = 3
    /\ Len(instances_at(labels, "v1", 1)) = 2
    /\ instances_at(labels, "v1", 1)[1].track = "A"
    /\ ~ instances_at(labels, "v1", 0)[2].pred
    /\ instances_at(labels, "v1", 1)[2].id = 1
    /\ instances_at(labels, "v1", 1)[2].track = "B"
    /\ instances_at(labels, "v1", 1)[2].points = instances_at(labels, "v1", 0)[2].points


(***************************************************************************)
(* Navigation between labeled frames: the sessions of the navigation       *)
(* between tracks, with the three commands that follow a frame iterator.   *)
(***************************************************************************)
NextGo ==
    \/ GoPreviousLabeledFrame
    \/ GoNextLabeledFrame
    \/ GoNextUserLabeledFrame

SpecGo == InitNav /\ [][NextGo]_vars

\* the frame indices the frame iterator of the command produces, in order
FrameIterator(cmd) ==
    LET fs == frames(labels, state.video, state.frame_idx, cmd = "GoPreviousLabeledFrame")
        kept == IF cmd = "GoNextUserLabeledFrame"
                THEN SelectSeq(fs, LAMBDA i : \E inst \in Range(LFS(labels)[i].instances) :
                                                  ~ inst.pred)
                ELSE fs
    IN  [k \in 1 .. Len(kept) |-> LFS(labels)[kept[k]].frame_idx]

\* C23: GoPreviousLabeledFrame, GoNextLabeledFrame and GoNextUserLabeledFrame
\* set frame_idx to the frame index of the first element of their frame
\* iterator and leave it unchanged when the iterator is exhausted; in both
\* cases they write no other key of the state (the instance selected stays
\* selected), do not modify the project, broadcast nothing and push nothing.
C23_FirstOfIterator ==
    [][Executes /\ last'.cmd \in {"GoPreviousLabeledFrame", "GoNextLabeledFrame",
                                  "GoNextUserLabeledFrame"} =>
          LET it == FrameIterator(last'.cmd)
              target == IF it = <<>> THEN state.frame_idx ELSE it[1]
          IN  /\ state' = [state EXCEPT !.frame_idx = target]
              /\ labels' = labels
              /\ change_stack' = change_stack
              /\ pending' = pending
              /\ EventsOf(log', "signal_update") = <<>>
              /\ EventsOf(log', "changestack_push") = <<>>
              /\ \A k \in 1 .. Len(it) :
                     /\ IF last'.cmd = "GoPreviousLabeledFrame"
                        THEN it[k] < state.frame_idx ELSE it[k] > state.frame_idx
                     /\ k > 1 => IF last'.cmd = "GoPreviousLabeledFrame"
                                 THEN it[k] < it[k - 1] ELSE it[k] > it[k - 1]]_vars

\* GoNextUserLabeledFrame on frame 7 with its user instance selected, when
\* the only labeled frame after it holds predictions only: the iterator was
\* exhausted, frame 7 is still shown and the instance still selected
C23_ExhaustedReached ==
    /\ last.cmd = "GoNextUserLabeledFrame"
    /\ state.frame_idx = 7
    /\ state.instance = 100
    /\ instances_at(labels, "v1", 10) # <<>>
    /\ \A inst \in Range(instances_at(labels, "v1", 10)) : inst.pred
    /\ log = <<Ev("do_action", "GoNextUserLabeledFrame", <<>>, 0),
               Ev("do_action_return", "GoNextUserLabeledFrame", <<>>, 0)>>

\* GoNextLabeledFrame with an instance selected went to the next labeled
\* frame: the instance is still selected, on a frame that is no longer shown
C23_MovedKeepingSelectionReached ==
    /\ last.cmd = "GoNextLabeledFrame"
    /\ state.instance # NoInst
    /\ ~ SelectionShown
    /\ log = <<Ev("do_action", "GoNextLabeledFrame", <<>>, 0),
               Ev("do_action_return", "GoNextLabeledFrame", <<>>, 0)>>


(***************************************************************************)
(* Edges: skeletons over head, tail and neck with and without edges.       *)
(***************************************************************************)
EdgePool == {<<"head", "tail">>, <<"tail", "neck">>}

InitEdge ==
    /\ labels = Labels0
    /\ \E S \in SUBSET {"head", "tail", "neck"} :
           \E E \in SUBSET {e \in EdgePool : e[1] \in S /\ e[2] \in S} :
               state = [State0 EXCEPT
                           !.skeleton = [nodes |-> SelectSeq(<<"head", "tail", "neck">>,
                                                             LAMBDA n : n \in S),
                                         edges |-> E, symmetries |-> {},
                                         id |-> "sk0"]]
    /\ change_stack = <<>>
    /\ update_callback = "callable"
    /\ pending = <<>>
    /\ log = <<>>
    /\ last = NoLast
    /\ nsteps = 0

NextEdge ==
    \/ NewEdge
    \/ DeleteEdge

SpecEdge == InitEdge /\ [][NextEdge]_vars

\* C24: NewEdge adds the edge (src_node, dst_node) to the skeleton if and
\* only if both nodes belong to the skeleton; when one of them does not, the
\* nodes and edges of the skeleton are unchanged and no error is raised.
C24_EdgeBetweenKnownNodes ==
    [][Executes /\ last'.cmd = "NewEdge" =>
          LET edge == <<last'.params.src_node, last'.params.dst_node>>
              known == /\ edge[1] \in Range(state.skeleton.nodes)
                       /\ edge[2] \in Range(state.skeleton.nodes)
          IN  /\ state'.skeleton.nodes = state.skeleton.nodes
              /\ state'.skeleton.symmetries = state.skeleton.symmetries
              /\ state'.skeleton.edges = IF known THEN state.skeleton.edges \cup {edge}
                                         ELSE state.skeleton.edges
              /\ edge \in state'.skeleton.edges <=> known
              /\ EventsOf(log', "raise") = <<>>
              /\ labels' = labels]_vars

\* NewEdge from neck to a node the skeleton does not have: the skeleton still
\* has its three nodes and its one edge
C24_UnknownNodeIgnoredReached ==
    /\ last.cmd = "NewEdge"
    /\ last.params = [src_node |-> "neck", dst_node |-> "ghost"]
    /\ state.skeleton.nodes = <<"head", "tail", "neck">>
    /\ state.skeleton.edges = {<<"head", "tail">>}
    /\ EventsOf(log, "raise") = <<>>


(***************************************************************************)
(* Filling in missing nodes: the projects of the point edits (a point of   *)
(* an instance as it is, hidden or not placed) with the skeleton of the    *)
(* project or with a third node that no instance has a point for, and the  *)
(* same projects after OpenSkeleton put another Skeleton into the state:   *)
(* the instances are on the skeleton of head and tail, the state has one   *)
(* with the same nodes, with a node more, or with neck in the place of     *)
(* tail.                                                                   *)
(***************************************************************************)
\* the Skeleton OpenSkeleton loaded, with the given nodes
OpenedSkeleton(nodes) == [nodes |-> nodes, edges |-> {}, symmetries |-> {}, id |-> "sk2"]

InitFill ==
    /\ \E id \in 1 .. 5, node \in {"head", "tail"}, f \in 0 .. 1 :
         \E filled \in {Labels0, WithPoint(Labels0, id, node, Point(2, 2, FALSE)),
                        WithPoint(Labels0, id, node, NanPoint(FALSE))} :
           \/ \E nodes \in {<<"head", "tail">>, <<"head", "tail", "neck">>} :
                  /\ labels = filled
                  /\ state = [State0 EXCEPT !.frame_idx = f, !.skeleton.nodes = nodes]
           \/ \E nodes \in {<<"head", "tail">>, <<"head", "tail", "neck">>,
                             <<"neck", "head">>} :
                  /\ labels = [filled EXCEPT !.skeletons = Append(@, OpenedSkeleton(nodes))]
                  /\ state = [State0 EXCEPT !.frame_idx = f,
                                            !.skeleton = OpenedSkeleton(nodes)]
    /\ change_stack = <<>>
    /\ update_callback = "callable"
    /\ pending = <<>>
    /\ log = <<>>
    /\ last = NoLast
    /\ nsteps = 0

NextFill == AddMissingInstanceNodes

SpecFill == InitFill /\ [][NextFill]_vars

\* C25: after add_best_nodes (AddMissingInstanceNodes) on an instance, made
\* on the current skeleton or on another one, every node of the current
\* skeleton has a point in the instance that is not NaN, also the nodes the
\* template has no location for; the points the instance had keep their
\* coordinates.
C25_EveryNodePlaced ==
    [][Executes /\ last'.cmd = "AddMissingInstanceNodes" =>
          LET before == InstById(labels, last'.params.instance)
              after == InstById(labels', last'.params.instance)
          IN  /\ \A n \in Range(state.skeleton.nodes) :
                     n \in DOMAIN after.points /\ ~ after.points[n].nan
              /\ after.skeleton = before.skeleton
              /\ \A n \in DOMAIN before.points :
                     ~ before.points[n].nan => after.points[n] = before.points[n]
              /\ \A inst \in AllInstances(labels) :
                     inst.id # before.id => inst \in AllInstances(labels')
              /\ Membership(labels') = Membership(labels)]_vars

\* instance 3, made on the skeleton of head and tail, had a tail that was
\* not placed; the state has another skeleton, of neck and head, and the
\* template has a location for head only: neck is placed, the head is where
\* it was, and tail, which the current skeleton does not have, got the NaN
\* of the template
C25_OtherSkeletonReached ==
    /\ last.cmd = "AddMissingInstanceNodes"
    /\ last.params = [instance |-> 3, visible |-> TRUE]
    /\ last.ans.template_nan = {"tail", "neck"}
    /\ state.skeleton = OpenedSkeleton(<<"neck", "head">>)
    /\ InstById(labels, 3).skeleton = "sk0"
    /\ InstById(labels, 3).points
           = [n \in {"head", "tail", "neck"} |->
                  IF n = "head" THEN Point(1, 2, TRUE)
                  ELSE IF n = "neck" THEN Point(3, 3, TRUE) ELSE NanPoint(TRUE)]

\* the same on the skeleton the instance was made on, with a third node
C25_BeyondTemplateReached ==
    /\ last.cmd = "AddMissingInstanceNodes"
    /\ last.params = [instance |-> 3, visible |-> FALSE]
    /\ last.ans.template_nan = {"tail", "neck"}
    /\ state.skeleton.nodes = <<"head", "tail", "neck">>
    /\ InstById(labels, 3).points
           = [n \in {"head", "tail", "neck"} |->
                  IF n = "head" THEN Point(1, 2, TRUE) ELSE Point(3, 3, FALSE)]


(***************************************************************************)
(* has_changes and the change stack: sessions that start with any stack    *)
(* and any value of has_changes (the state is shared with the main         *)
(* window), and the commands that push, mark a savepoint, push twice, push *)
(* from a callback or do not push, with changestack_clear.                 *)
(***************************************************************************)
InitChange ==
    /\ labels = Labels0
    /\ change_stack \in {<<>>, <<"NewNode">>, <<"NewNode", "SAVE">>}
    /\ \E s \in SessionStates, b \in BOOLEAN : state = [s EXCEPT !.has_changes = b]
    /\ update_callback = "callable"
    /\ pending = <<>>
    /\ log = <<>>
    /\ last = NoLast
    /\ nsteps = 0

NextChange ==
    \/ SaveProject
    \/ SaveProjectAs
    \/ NewNode
    \/ AddVideo
    \/ AddTrack
    \/ DeleteAllPredictions
    \/ DeleteAreaPredictions
    \/ AreaSelected
    \/ GoNextLabeledFrame
    \/ ChangestackClear
    \/ ChangestackPush
    \/ ChangestackSavepoint

SpecChange == InitChange /\ [][NextChange]_vars

\* has_changes says that the stack has an entry after the last savepoint
FlagMatchesStack ==
    state.has_changes <=> (change_stack # <<>> /\ change_stack[Len(change_stack)] # "SAVE")

\* the step called changestack_push, changestack_savepoint or changestack_clear
ChangestackCalled ==
    \/ EventsOf(log', "changestack_push") # <<>> /\ (Executes \/ last'.op = "delete_area_callback")
    \/ last'.op \in {"changestack_clear", "changestack_push", "changestack_savepoint"}

\* C26: once changestack_push, changestack_savepoint or changestack_clear
\* has been called, has_changes is True if and only if the change stack is
\* not empty and its last entry is not the SAVE marker, after any sequence
\* of those calls and of commands: every step that makes such a call
\* establishes the equivalence and every step keeps it.
C26_HasChangesTracksStack ==
    [][ChangestackCalled \/ FlagMatchesStack => FlagMatchesStack']_vars

\* a confirmed DeleteAllPredictions after a savepoint: two entries were pushed
\* after the SAVE marker and has_changes is True
C26_CalledAfterMismatchReached ==
    /\ last.cmd = "DeleteAllPredictions"
    /\ last.ans.yes
    /\ change_stack = <<"NewNode", "SAVE", "delete instances", "DeleteAllPredictions">>
    /\ state.has_changes
    /\ Len(EventsOf(log, "changestack_push")) = 2


\* the calls of the update callback and the pushes of a step, in their order
CallbacksAndPushes(l) ==
    SelectSeq(l, LAMBDA x : x.ev \in {"update_callback", "changestack_push"})

\* C27: one execution of AddTrack runs the nested SetSelectedInstanceTrack
\* to its end inside its own do_action: it appends exactly two history
\* entries, "SetSelectedInstanceTrack" and then "AddTrack", calls the update
\* callback twice with the tracks topic, the nested command's call and push
\* before the outer ones, and adds one track to the project, also when no
\* instance is selected.
C27_NestedRunsToCompletion ==
    [][Executes /\ last'.cmd = "AddTrack" =>
          /\ change_stack' = change_stack \o <<"SetSelectedInstanceTrack", "AddTrack">>
          /\ CallbacksAndPushes(log') =
                 <<Ev("update_callback", "", <<"tracks">>, 0),
                   Ev("changestack_push", "SetSelectedInstanceTrack", <<>>, 0),
                   Ev("update_callback", "", <<"tracks">>, 0),
                   Ev("changestack_push", "AddTrack", <<>>, 0)>>
          /\ Len(labels'.tracks) = Len(labels.tracks) + 1]_vars


(***************************************************************************)
(* Videos: projects of no, one or two of the videos of Labels0 in either   *)
(* order, no video or a video of the project shown, no video or a video of *)
(* the project selected in the video table.                                *)
(***************************************************************************)
VideoLists == {<<>>, <<"v1">>, <<"v2">>, <<"v1", "v2">>, <<"v2", "v1">>}

VideoLabels(vs) ==
    [Labels0 EXCEPT
        !.videos = vs,
        !.labeled_frames = SelectSeq(@, LAMBDA lf : lf.video \in Range(vs)),
        !.suggestions = SelectSeq(@, LAMBDA sg : sg[1] \in Range(vs))]

InitVideo ==
    /\ \E vs \in VideoLists :
           /\ labels = VideoLabels(vs)
           /\ \E v \in Range(vs) \cup {None}, sel \in Range(vs) \cup {None}, f \in 0 .. 1 :
                  state = [State0 EXCEPT !.video = v, !.selected_video = sel,
                                         !.frame_idx = f]
    /\ change_stack = <<>>
    /\ update_callback = "callable"
    /\ pending = <<>>
    /\ log = <<>>
    /\ last = NoLast
    /\ nsteps = 0

NextVideo ==
    \/ AddVideo
    \/ RemoveVideo

SpecVideo == InitVideo /\ [][NextVideo]_vars

\* the broadcasts and the pushes of a step, in their order
BroadcastsAndPushes(l) ==
    SelectSeq(l, LAMBDA x : x.ev \in {"signal_update", "changestack_push"})

\* C28: AddVideo with an import list of n >= 1 items adds n videos to the
\* project, appends n "add video" history entries and then one "AddVideo"
\* entry, and broadcasts the video topic once, after the n videos have been
\* added and their entries pushed; with an empty import list it adds
\* nothing, broadcasts nothing and pushes nothing.
C28_OneEntryPerVideo ==
    [][Executes /\ last'.cmd = "AddVideo" =>
          LET n == last'.ans.num
              had == Len(labels.videos)
          IN  /\ Len(labels'.videos) = had + n
              /\ SubSeq(labels'.videos, 1, had) = labels.videos
              /\ Cardinality(Range(labels'.videos)) = had + n
              /\ change_stack' =
                     change_stack \o [k \in 1 .. n |-> "add video"]
                                  \o (IF n = 0 THEN <<>> ELSE <<"AddVideo">>)
              /\ BroadcastsAndPushes(log') =
                     [k \in 1 .. n |-> Ev("changestack_push", "add video", <<>>, 0)]
                     \o (IF n = 0 THEN <<>>
                         ELSE <<Ev("signal_update", "", <<"video">>, 0),
                                Ev("changestack_push", "AddVideo", <<>>, 0)>>)]_vars

\* two videos imported into a project of one video: three entries
C28_TwoImportedReached ==
    /\ last.cmd = "AddVideo"
    /\ last.ans.num = 2
    /\ Len(labels.videos) = 3
    /\ change_stack = <<"add video", "add video", "AddVideo">>

\* C29: from a state whose current video is None or a video of the project,
\* after any sequence of AddVideo and RemoveVideo the current video is None
\* or a video of the project: AddVideo changes it only when it was None, to
\* the last video imported; RemoveVideo of the current video makes the last
\* remaining video current, or None when none remains; RemoveVideo of
\* another video leaves it as it was.
C29_CurrentVideoInProject ==
    [][Executes /\ last'.cmd \in {"AddVideo", "RemoveVideo"} =>
          LET vs == labels'.videos
              removes == last'.cmd = "RemoveVideo" /\ last'.ret = "True"
              imports == last'.cmd = "AddVideo" /\ last'.ans.num > 0
          IN  /\ state'.video = None \/ state'.video \in Range(vs)
              /\ state'.video =
                     IF imports /\ state.video = None THEN vs[Len(vs)]
                     ELSE IF removes /\ state.video = state.selected_video
                     THEN (IF vs = <<>> THEN None ELSE vs[Len(vs)])
                     ELSE state.video
              /\ removes => Range(vs) = Range(labels.videos) \ {state.selected_video}]_vars

\* the only video of a project, shown, removed: nothing is current
C29_LastVideoRemovedReached ==
    /\ last.cmd = "RemoveVideo"
    /\ last.ret = "True"
    /\ labels.videos = <<>>
    /\ state.video = None
    /\ state.selected_video # None


(***************************************************************************)
(* Area deletion with commands in between: sessions in which the player    *)
(* may already wait for the rectangle of DeleteAreaPredictions, and        *)
(* commands that delete instances, add one or show another video before    *)
(* the rectangle is drawn.                                                 *)
(***************************************************************************)
AreaRegistration ==
    [kind |-> "onAreaSelection", cmd |-> "DeleteAreaPredictions", params |-> NoParams]

InitArea ==
    /\ labels = Labels0
    /\ state \in SessionStates
    /\ change_stack = <<>>
    /\ update_callback = "callable"
    /\ pending \in {<<>>, <<AreaRegistration>>}
    /\ log = <<>>
    /\ last = NoLast
    /\ nsteps = 0

NextArea ==
    \/ DeleteAreaPredictions
    \/ AreaSelected
    \/ DeleteSelectedInstance
    \/ DeleteFramePredictions
    \/ AddInstance
    \/ GoNextSuggestedFrame
    \/ RemoveVideo

SpecArea == InitArea /\ [][NextArea]_vars

\* the predicted instances of a video whose points that are not missing all
\* lie in the rectangle r
BoundedPredictions(L, video, r) ==
    {inst.id : inst \in
        {i \in AllInstances(L) :
            /\ LFS(L)[FrameOfInst(L, i.id)].video = video
            /\ i.pred
            /\ \A n \in DOMAIN i.points :
                   ~ i.points[n].nan =>
                       /\ r[1] <= i.points[n].x /\ i.points[n].x <= r[3]
                       /\ r[2] <= i.points[n].y /\ i.points[n].y <= r[4]}}

\* C30: the candidates of DeleteAreaPredictions are computed when the area
\* callback fires, not when the command is executed: whatever commands ran
\* since the registration, the prompt counts, and a confirmed deletion
\* removes, exactly the predicted instances of the video current at firing
\* time whose non-missing points all lie in the rectangle; they are
\* instances the project still holds, and nothing else is removed.
C30_CandidatesAtFiringTime ==
    [][last'.op = "delete_area_callback"
       /\ last'.params.r[1] # last'.params.r[3] /\ last'.params.r[2] # last'.params.r[4] =>
          LET candidates == BoundedPredictions(labels, state.video, last'.params.r)
          IN  /\ EventsOf(log', "dialog") =
                     <<Dialog("QMessageBox.critical", Cardinality(candidates))>>
              /\ InstanceIds(labels') =
                     IF last'.ans.yes THEN InstanceIds(labels) \ candidates
                     ELSE InstanceIds(labels)]_vars

\* the callback fired after DeleteSelectedInstance had removed the first
\* prediction of the first video: the prompt counted the one prediction left
\* in the rectangle and only that one was removed
C30_FiredAfterDeletionReached ==
    /\ last.op = "delete_area_callback"
    /\ last.ans.yes
    /\ nsteps = 1
    /\ state.video = "v1"
    /\ EventsOf(log, "dialog") = <<Dialog("QMessageBox.critical", 1)>>
    /\ InstanceIds(labels) = {2, 3, 5, 6}

====
